---------------------------- MODULE Spec2Model ----------------------------
(***************************************************************************)
(* CThaiNLP: dictionary-driven maximal-matching segmentation of Thai text  *)
(* (newmm.c), its prefix trie (trie.c) and its Thai Character Cluster      *)
(* scanner (tcc.c).                                                        *)
(*                                                                         *)
(* A C string is a sequence of bytes (0..255) without its terminating NUL; *)
(* the byte at C offset p is element p + 1, and the NUL sits at offset     *)
(* Len(s).  A pointer text + p is the pair (text, p).                      *)
(***************************************************************************)
EXTENDS Integers, Sequences, FiniteSets, TLC

(***************************************************************************)
(* Bounds of the model.                                                    *)
(***************************************************************************)
MaxTextChars == 2      \* enumerated texts have at most this many characters
MaxReuseChars == 1     \* likewise, for the texts of the handle-reuse runs
MaxAdds == 3           \* trie_add calls made on one trie in the trie runs
MaxOomAdds == 2        \* likewise, in the runs with failing allocations
MaxAllocs == 6         \* the allocation call that fails is one of the first
                       \* MaxAllocs calls of a trie_add (0: none fails)

(***************************************************************************)
(* Program constants.                                                      *)
(***************************************************************************)
INITIAL_CAPACITY == 8
MAX_TOKENS == 10000
THAI_START == 3584     \* 0x0E00
THAI_END == 3711       \* 0x0E7F
FGETS_BUFFER == 1024


(***************************************************************************)
(* Sequence helpers.                                                       *)
(***************************************************************************)
(* ss[lo] \o ... \o ss[hi] *)
RECURSIVE Concat(_, _, _)
Concat(ss, lo, hi) ==
    IF lo > hi THEN << >>
    ELSE IF lo = hi THEN ss[lo]
    ELSE Concat(ss, lo, (lo + hi) \div 2) \o Concat(ss, ((lo + hi) \div 2) + 1, hi)

Flatten(ss) == Concat(ss, 1, Len(ss))

Last(s) == s[Len(s)]

Range(f) == {f[i] : i \in DOMAIN f}

(* The UTF-8 encoding of one scalar value, as the compiler (for a string   *)
(* literal) or an editor (for a dictionary file) writes it.                *)
Utf8Char(cp) ==
    IF cp < 128 THEN <<cp>>
    ELSE IF cp < 2048 THEN <<192 + (cp \div 64), 128 + (cp % 64)>>
    ELSE IF cp < 65536 THEN
        <<224 + (cp \div 4096), 128 + ((cp \div 64) % 64), 128 + (cp % 64)>>
    ELSE <<240 + (cp \div 262144), 128 + ((cp \div 4096) % 64),
           128 + ((cp \div 64) % 64), 128 + (cp % 64)>>

Utf8(cps) == Flatten([i \in 1..Len(cps) |-> Utf8Char(cps[i])])

(***************************************************************************)
(* Codepoint decoder (the same static helpers in trie.c, tcc.c, newmm.c).  *)
(***************************************************************************)
(* str[off]: the bytes of the string, then its NUL terminator. *)
ByteAt(s, off) == IF off < Len(s) THEN s[off + 1] ELSE 0

utf8_char_len(c) ==
    IF c \div 128 = 0 THEN 1            \* (c & 0x80) == 0
    ELSE IF c \div 32 = 6 THEN 2        \* (c & 0xE0) == 0xC0
    ELSE IF c \div 16 = 14 THEN 3       \* (c & 0xF0) == 0xE0
    ELSE IF c \div 8 = 30 THEN 4        \* (c & 0xF8) == 0xF0
    ELSE 1

(* Returns the codepoint and *byte_len.  The shifted bit fields do not     *)
(* overlap, so | is +.                                                     *)
get_utf8_codepoint(s, off) ==
    LET c == ByteAt(s, off)
        len == utf8_char_len(c)
        cp == IF len = 1 THEN c
              ELSE IF len = 2 THEN (c % 32) * 64 + (ByteAt(s, off + 1) % 64)
              ELSE IF len = 3 THEN (c % 16) * 4096
                                   + (ByteAt(s, off + 1) % 64) * 64
                                   + (ByteAt(s, off + 2) % 64)
              ELSE (c % 8) * 262144 + (ByteAt(s, off + 1) % 64) * 4096
                   + (ByteAt(s, off + 2) % 64) * 64 + (ByteAt(s, off + 3) % 64)
    IN  [codepoint |-> cp, byte_len |-> len]

(***************************************************************************)
(* Thai character classes (tcc.c) and the non-Thai test (newmm.c).         *)
(***************************************************************************)
is_thai_consonant(c) == c >= 3585 /\ c <= 3630        \* 0x0E01..0x0E2E
is_thai_vowel_above(c) == c >= 3636 /\ c <= 3639      \* 0x0E34..0x0E37
is_thai_vowel_below(c) == c = 3640 \/ c = 3641        \* 0x0E38, 0x0E39
is_thai_tone(c) == c >= 3656 /\ c <= 3659             \* 0x0E48..0x0E4B
is_thai_sign(c) == c = 3660 \/ c = 3661 \/ c = 3662   \* 0x0E4C..0x0E4E
is_thai_vowel_follow(c) == c >= 3632 /\ c <= 3635     \* 0x0E30..0x0E33
is_thai_vowel_lead(c) == c >= 3648 /\ c <= 3652       \* 0x0E40..0x0E44

IsSpaceTab(cp) == cp = 32 \/ cp = 9
IsAlpha(cp) == (cp >= 97 /\ cp <= 122) \/ (cp >= 65 /\ cp <= 90)
IsDigit(cp) == cp >= 48 /\ cp <= 57

is_non_thai_char(codepoint) ==
    IF IsAlpha(codepoint) \/ IsDigit(codepoint) \/ IsSpaceTab(codepoint)
       \/ codepoint = 13 \/ codepoint = 10
    THEN TRUE
    ELSE IF codepoint >= THAI_START /\ codepoint <= THAI_END THEN FALSE
    ELSE TRUE

(***************************************************************************)
(* tcc.c                                                                   *)
(* SkipMarks that takes follow vowels in every run. *)
RECURSIVE SkipMarks_FollowAlways(_, _, _)
SkipMarks_FollowAlways(s, off, follow) ==
    IF ByteAt(s, off) = 0 THEN off
    ELSE LET d == get_utf8_codepoint(s, off)
             c == d.codepoint
         IN  IF is_thai_tone(c) \/ is_thai_sign(c) \/ is_thai_vowel_above(c)
                \/ is_thai_vowel_below(c) \/ is_thai_vowel_follow(c)
             THEN SkipMarks_FollowAlways(s, off + d.byte_len, follow)
             ELSE off

(***************************************************************************)
(* The while loops of get_tcc_length: the offset after the maximal run of  *)
(* marks starting at off; follow says whether follow vowels count.         *)
RECURSIVE SkipMarks(_, _, _)
SkipMarks(s, off, follow) ==
    IF ByteAt(s, off) = 0 THEN off
    ELSE LET d == get_utf8_codepoint(s, off)
             c == d.codepoint
         IN  IF is_thai_tone(c) \/ is_thai_sign(c) \/ is_thai_vowel_above(c)
                \/ is_thai_vowel_below(c) \/ (follow /\ is_thai_vowel_follow(c))
             THEN SkipMarks(s, off + d.byte_len, follow)
             ELSE off

(* The optional extra consonant: the offset after it, or off. *)
SkipConsonant(s, off) ==
    IF ByteAt(s, off) = 0 THEN off
    ELSE LET d == get_utf8_codepoint(s, off)
         IN  IF is_thai_consonant(d.codepoint) THEN off + d.byte_len ELSE off

(* get_tcc_length(text + off): the byte length of the cluster at off. *)
get_tcc_length(s, off) ==
    LET d == get_utf8_codepoint(s, off)
        ptr == off + d.byte_len
    IN  IF is_thai_vowel_lead(d.codepoint) THEN
            IF ByteAt(s, ptr) # 0
               /\ is_thai_consonant(get_utf8_codepoint(s, ptr).codepoint)
            THEN SkipMarks(s,
                     SkipConsonant(s, ptr + get_utf8_codepoint(s, ptr).byte_len),
                     FALSE) - off
            ELSE d.byte_len
        ELSE IF is_thai_consonant(d.codepoint) THEN
            SkipMarks(s, SkipConsonant(s, ptr), TRUE) - off
        ELSE d.byte_len

(* TccStep that records where the cluster starts, not where it ends. *)
TccStep_RecordsStart(s, st) ==
    LET byte_pos == st.byte_pos + get_tcc_length(s, st.byte_pos)
    IN  [byte_pos |-> byte_pos, positions |-> Append(st.positions, st.byte_pos)]

(* One iteration of the while loop of tcc_pos. *)
TccStep(s, st) ==
    LET byte_pos == st.byte_pos + get_tcc_length(s, st.byte_pos)
    IN  [byte_pos |-> byte_pos, positions |-> Append(st.positions, byte_pos)]

(* n iterations of that loop, or fewer if it ends before (the loop is cut  *)
(* in halves only to keep the evaluation shallow).                         *)
RECURSIVE TccScan(_, _, _)
TccScan(s, st, n) ==
    IF n = 0 \/ ByteAt(s, st.byte_pos) = 0 THEN st
    ELSE IF n = 1 THEN TccStep(s, st)
    ELSE TccScan(s, TccScan(s, st, n \div 2), n - (n \div 2))

(* tcc_pos: the list of cluster end offsets (its length is the count).     *)
(* Every cluster has a byte at least, so Len(s) iterations are enough.     *)
tcc_pos(s) ==
    IF Len(s) = 0 THEN << >>
    ELSE TccScan(s, [byte_pos |-> 0, positions |-> << >>], Len(s)).positions

(***************************************************************************)
(* trie.c.  A trie is [nodes, num_words]; nodes is the heap of TrieNode    *)
(* records, a node pointer is its index and the root is node 1.  The       *)
(* arrays children and child_chars hold num_children entries of capacity.  *)
(***************************************************************************)
trie_node_create ==
    [is_end |-> FALSE, children |-> << >>, child_chars |-> << >>,
     num_children |-> 0, capacity |-> 0]

trie_create == [nodes |-> <<trie_node_create>>, num_words |-> 0]

(* trie_node_get_child with the return of NULL inside the loop: only the   *)
(* first child is looked at.                                               *)
trie_node_get_child_FirstOnly(node, codepoint) ==
    IF node.num_children >= 1 /\ node.child_chars[1] = codepoint
    THEN node.children[1] ELSE 0

(* The child pointer for codepoint, or 0 (NULL): the first match of the    *)
(* linear scan.                                                            *)
trie_node_get_child(node, codepoint) ==
    LET hits == {i \in 1..node.num_children : node.child_chars[i] = codepoint}
    IN  IF hits = {} THEN 0
        ELSE node.children[CHOOSE i \in hits : \A j \in hits : i <= j]

(* A children array that is given its first capacity and never grows. *)
GrownCapacity_NoDoubling(node) ==
    IF node.capacity = 0 THEN INITIAL_CAPACITY ELSE node.capacity

GrownCapacity(node) ==
    IF node.num_children >= node.capacity
    THEN IF node.capacity = 0 THEN INITIAL_CAPACITY ELSE node.capacity * 2
    ELSE node.capacity

(* trie_node_add_child on node n of the heap: the new heap, whose last     *)
(* node is the child created.                                              *)
trie_node_add_child(nodes, n, codepoint) ==
    LET child == Len(nodes) + 1
        node == nodes[n]
        grown == [node EXCEPT !.capacity = GrownCapacity(node),
                              !.children = Append(node.children, child),
                              !.child_chars = Append(node.child_chars, codepoint),
                              !.num_children = node.num_children + 1]
    IN  Append([nodes EXCEPT ![n] = grown], trie_node_create)

IsTrimByte(b) == b = 32 \/ b = 9 \/ b = 13 \/ b = 10

(* No trimming at the front of the word. *)
TrimLeft_None(w) == w

RECURSIVE TrimLeft(_)
TrimLeft(w) == IF w # << >> /\ IsTrimByte(Head(w)) THEN TrimLeft(Tail(w)) ELSE w

RECURSIVE TrimRight(_)
TrimRight(w) ==
    IF w # << >> /\ IsTrimByte(Last(w))
    THEN TrimRight(SubSeq(w, 1, Len(w) - 1)) ELSE w

(* One iteration of the while loop of trie_add: st holds the heap, the     *)
(* node reached and ptr.                                                   *)
AddStep(word, st) ==
    LET d == get_utf8_codepoint(word, st.ptr)
        child == trie_node_get_child(st.nodes[st.current], d.codepoint)
    IN  IF child = 0
        THEN [nodes |-> trie_node_add_child(st.nodes, st.current, d.codepoint),
              current |-> Len(st.nodes) + 1, ptr |-> st.ptr + d.byte_len]
        ELSE [nodes |-> st.nodes, current |-> child, ptr |-> st.ptr + d.byte_len]

(* n iterations of that loop, or fewer if ptr reaches end before (the loop *)
(* is cut in halves only to keep the evaluation shallow).                  *)
RECURSIVE AddScan(_, _, _, _)
AddScan(word, st, end, n) ==
    IF n = 0 \/ st.ptr >= end THEN st
    ELSE IF n = 1 THEN AddStep(word, st)
    ELSE AddScan(word, AddScan(word, st, end, n \div 2), end, n - (n \div 2))

(* The walk of trie_add over word[ptr .. end): the heap and the node        *)
(* reached.  word is the left-trimmed string, end its right-trimmed length; *)
(* every iteration takes a byte at least, so end iterations are enough.     *)
AddWalk(nodes, current, word, ptr, end) ==
    AddScan(word, [nodes |-> nodes, current |-> current, ptr |-> ptr], end, end)

(* trie_add without the test of is_end: every call counts a word. *)
trie_add_AlwaysCounts(trie, word) ==
    LET w == TrimLeft(word)
        len == Len(TrimRight(w))
    IN  IF len = 0 THEN trie
        ELSE LET r == AddWalk(trie.nodes, 1, w, 0, len)
             IN  [nodes |-> [r.nodes EXCEPT ![r.current].is_end = TRUE],
                  num_words |-> trie.num_words + 1]

trie_add(trie, word) ==
    LET w == TrimLeft(word)
        len == Len(TrimRight(w))
    IN  IF len = 0 THEN trie
        ELSE LET r == AddWalk(trie.nodes, 1, w, 0, len)
             IN  IF r.nodes[r.current].is_end
                 THEN [trie EXCEPT !.nodes = r.nodes]
                 ELSE [nodes |-> [r.nodes EXCEPT ![r.current].is_end = TRUE],
                       num_words |-> trie.num_words + 1]

(***************************************************************************)
(* trie_add when an allocation may fail.  The allocation calls of one      *)
(* trie_add are numbered in the order made; fail_at is the number of the   *)
(* one that returns NULL (none does if fail_at is 0 or larger than their   *)
(* count).  moves says whether a realloc that grows a block returns a new  *)
(* block and frees the old one, or grows the block in place.  A walk state *)
(* is [nodes, current, allocs, dangling, leaked, failed]: the heap of      *)
(* nodes, the node reached (0 for NULL), the allocation calls made, the    *)
(* nodes whose children pointer refers to a freed block, the count of      *)
(* blocks no pointer refers to, and whether an allocation has failed.      *)
(***************************************************************************)
trie_node_add_child_alloc(st, n, codepoint, fail_at, moves) ==
    LET node == st.nodes[n]
        grows == node.num_children >= node.capacity
        \* the numbers of the realloc of children, the realloc of
        \* child_chars and the calloc of trie_node_create
        a_children == st.allocs + 1
        a_chars == st.allocs + 2
        a_node == IF grows THEN st.allocs + 3 ELSE st.allocs + 1
    IN  IF grows /\ fail_at = a_children
        THEN [st EXCEPT !.current = 0, !.allocs = a_children, !.failed = TRUE]
        ELSE IF grows /\ fail_at = a_chars
        THEN \* new_children is dropped; node->children keeps its old value
             [st EXCEPT !.current = 0, !.allocs = a_chars, !.failed = TRUE,
                        !.leaked = IF node.capacity = 0 \/ moves
                                   THEN st.leaked + 1 ELSE st.leaked,
                        !.dangling = IF node.capacity > 0 /\ moves
                                     THEN st.dangling \cup {n} ELSE st.dangling]
        ELSE IF fail_at = a_node
        THEN [st EXCEPT !.current = 0, !.allocs = a_node, !.failed = TRUE,
                        !.nodes[n].capacity = GrownCapacity(node)]
        ELSE [st EXCEPT !.nodes = trie_node_add_child(st.nodes, n, codepoint),
                        !.current = Len(st.nodes) + 1,
                        !.allocs = a_node]

(* The walk of trie_add; it returns when trie_node_add_child gives NULL. *)
RECURSIVE AddWalkAlloc(_, _, _, _, _, _)
AddWalkAlloc(st, word, ptr, end, fail_at, moves) ==
    IF ptr >= end THEN st
    ELSE LET d == get_utf8_codepoint(word, ptr)
             child == trie_node_get_child(st.nodes[st.current], d.codepoint)
             next == IF child = 0
                     THEN trie_node_add_child_alloc(st, st.current, d.codepoint,
                                                    fail_at, moves)
                     ELSE [st EXCEPT !.current = child]
         IN  IF next.current = 0 THEN next
             ELSE AddWalkAlloc(next, word, ptr + d.byte_len, end, fail_at, moves)

(* trie_add(trie, word) under these allocation outcomes: the trie after    *)
(* it, and what it did to the children arrays.                             *)
trie_add_alloc(trie, word, fail_at, moves) ==
    LET w == TrimLeft(word)
        len == Len(TrimRight(w))
        start == [nodes |-> trie.nodes, current |-> 1, allocs |-> 0,
                  dangling |-> {}, leaked |-> 0, failed |-> FALSE]
    IN  IF len = 0
        THEN [trie |-> trie, dangling |-> {}, leaked |-> 0, failed |-> FALSE]
        ELSE LET r == AddWalkAlloc(start, w, 0, len, fail_at, moves)
             IN  [trie |-> IF r.current = 0 \/ r.nodes[r.current].is_end
                           THEN [trie EXCEPT !.nodes = r.nodes]
                           ELSE [nodes |-> [r.nodes EXCEPT ![r.current].is_end = TRUE],
                                 num_words |-> trie.num_words + 1],
                  dangling |-> r.dangling, leaked |-> r.leaked,
                  failed |-> r.failed]

(* PrefixWalk that returns at the first word end it meets. *)
RECURSIVE PrefixWalk_StopsAtFirst(_, _, _, _, _)
PrefixWalk_StopsAtFirst(trie, current, s, off, byte_pos) ==
    IF ByteAt(s, off + byte_pos) = 0 THEN << >>
    ELSE LET d == get_utf8_codepoint(s, off + byte_pos)
             child == trie_node_get_child(trie.nodes[current], d.codepoint)
         IN  IF child = 0 THEN << >>
             ELSE IF trie.nodes[child].is_end THEN <<byte_pos + d.byte_len>>
             ELSE PrefixWalk_StopsAtFirst(trie, child, s, off,
                                          byte_pos + d.byte_len)

(* trie_prefixes(trie, text + off): the byte lengths found, in the order   *)
(* found (the prefix strings are the copies text[off .. off + length)).    *)
RECURSIVE PrefixWalk(_, _, _, _, _)
PrefixWalk(trie, current, s, off, byte_pos) ==
    IF ByteAt(s, off + byte_pos) = 0 THEN << >>
    ELSE LET d == get_utf8_codepoint(s, off + byte_pos)
             child == trie_node_get_child(trie.nodes[current], d.codepoint)
         IN  IF child = 0 THEN << >>
             ELSE (IF trie.nodes[child].is_end
                   THEN <<byte_pos + d.byte_len>> ELSE << >>)
                  \o PrefixWalk(trie, child, s, off, byte_pos + d.byte_len)

trie_prefixes(trie, s, off) == PrefixWalk(trie, 1, s, off, 0)


(* The words of a trie: the byte strings spelled by the paths from the     *)
(* root to the nodes marked is_end.  The trie is read a level at a time:   *)
(* the frontier holds the nodes of a depth with the bytes that lead there. *)
WordsStep(trie, st) ==
    LET next == UNION {{[n |-> trie.nodes[f.n].children[i],
                         prefix |-> f.prefix
                                    \o Utf8Char(trie.nodes[f.n].child_chars[i])] :
                            i \in 1..trie.nodes[f.n].num_children} :
                       f \in st.frontier}
    IN  [frontier |-> {f \in next : f.n \in 1..Len(trie.nodes)},
         words |-> st.words \cup {f.prefix : f \in {g \in next : trie.nodes[g.n].is_end}}]

RECURSIVE WordsScan(_, _, _)
WordsScan(trie, st, n) ==
    IF n = 0 \/ st.frontier = {} THEN st
    ELSE IF n = 1 THEN WordsStep(trie, st)
    ELSE WordsScan(trie, WordsScan(trie, st, n \div 2), n - (n \div 2))

WordsOf(trie) ==
    IF trie.nodes = << >> THEN {}
    ELSE WordsScan(trie, [frontier |-> {[n |-> 1, prefix |-> << >>]},
                          words |-> IF trie.nodes[1].is_end THEN {<< >>} ELSE {}],
                   Len(trie.nodes)).words

(* fgets(buffer, sizeof(buffer), fp) until end of file: the successive     *)
(* buffers, each at most FGETS_BUFFER - 1 bytes and ending after the first *)
(* newline met.                                                            *)
RECURSIVE FgetsAll(_)
FgetsAll(content) ==
    IF content = << >> THEN << >>
    ELSE LET room == IF Len(content) < FGETS_BUFFER - 1
                     THEN Len(content) ELSE FGETS_BUFFER - 1
             nl == {i \in 1..room : content[i] = 10}
             n == IF nl = {} THEN room ELSE CHOOSE i \in nl : \A j \in nl : i <= j
         IN  <<SubSeq(content, 1, n)>> \o FgetsAll(SubSeq(content, n + 1, Len(content)))

(* The body of the read loop of trie_load_dict for one buffer. *)
StripNewline(buffer) ==
    LET a == IF buffer # << >> /\ Last(buffer) = 10
             THEN SubSeq(buffer, 1, Len(buffer) - 1) ELSE buffer
    IN  IF a # << >> /\ Last(a) = 13 THEN SubSeq(a, 1, Len(a) - 1) ELSE a

RECURSIVE LoadLoop(_, _, _)
LoadLoop(trie, buffers, count) ==
    IF buffers = << >> THEN [ret |-> count, trie |-> trie]
    ELSE LET line == StripNewline(Head(buffers))
             added == trie_add(trie, line)
         IN  IF Len(line) > 0 /\ added.num_words >= 0
             THEN LoadLoop(added, Tail(buffers), count + 1)
             ELSE LoadLoop(trie, Tail(buffers), count)

(***************************************************************************)
(* The file system the program runs against: a path either cannot be       *)
(* opened or names a file with some content.  A path is a record; the      *)
(* NULL path is the record NullPath.                                       *)
(***************************************************************************)
ChanPaiRongRian ==
    Utf8(<<3593, 3633, 3609, 3652, 3611, 3650, 3619, 3591, 3648, 3619, 3637,
           3618, 3609>>)
WChan == Utf8(<<3593, 3633, 3609>>)
WPai == Utf8(<<3652, 3611>>)
WRongRian == Utf8(<<3650, 3619, 3591, 3648, 3619, 3637, 3618, 3609>>)
WCho == Utf8(<<3593>>)
WChanPai == Utf8(<<3593, 3633, 3609, 3652, 3611>>)
WPaiRong == Utf8(<<3652, 3611, 3650, 3619, 3591>>)
WRian == Utf8(<<3648, 3619, 3637, 3618, 3609>>)

(* Words a dictionary file may hold besides the three of the README's      *)
(* sample dictionary.                                                      *)
ExtraWords == <<WCho, WChanPai, WPaiRong, WRian>>

Lines(ws) == Flatten([i \in 1..Len(ws) |-> ws[i] \o <<10>>])

SelectExtras(S) ==
    LET F[i \in 0..Len(ExtraWords)] ==
            IF i = 0 THEN << >>
            ELSE IF i \in S THEN Append(F[i - 1], ExtraWords[i]) ELSE F[i - 1]
    IN  F[Len(ExtraWords)]

NullPath == [file |-> "NULL", extras |-> {}]
NoPath == [file |-> "", extras |-> {}]       \* no handle is held
MissingPath == [file |-> "no_such_file.txt", extras |-> {}]
WordsPath(S) == [file |-> "words.txt", extras |-> S]
ThaiPath == [file |-> "thai.txt", extras |-> {}]
MixedPath == [file |-> "mixed.txt", extras |-> {}]
Mixed2Path == [file |-> "mixed2.txt", extras |-> {}]
WidePath == [file |-> "wide.txt", extras |-> {}]
LongPath == [file |-> "long.txt", extras |-> {}]

CanOpen(path) ==
    path.file \in {"words.txt", "thai.txt", "mixed.txt", "mixed2.txt", "wide.txt",
                   "long.txt"}

FileContent(path) ==
    IF path.file = "words.txt"
    THEN Lines(<<WChan, WPai, WRongRian>> \o SelectExtras(path.extras))
    ELSE IF path.file = "thai.txt"
    THEN \* ko kai; ko kai + sara aa; a blank line; sara aa + sara e;
         \* sara e + ko kai; CRLF line ends
         Utf8(<<3585, 13, 10, 3585, 3634, 13, 10, 13, 10, 3634, 3648, 13, 10,
                3648, 3585, 13, 10>>)
    ELSE IF path.file = "mixed.txt"
    THEN \* "a1", "1a", ko kai + "a", "a a", ko kai; the last line unterminated
         Utf8(<<97, 49, 10, 49, 97, 10, 3585, 97, 10, 97, 32, 97, 10, 3585>>)
    ELSE IF path.file = "mixed2.txt"
    THEN \* the words of mixed.txt in another order, one of them twice
         Utf8(<<3585, 10, 49, 97, 10, 97, 32, 97, 10, 3585, 97, 10, 49, 97, 10,
                97, 49, 10>>)
    ELSE IF path.file = "wide.txt"
    THEN \* "a" to "h", a letter a line: INITIAL_CAPACITY children of the root
         Lines([i \in 1..INITIAL_CAPACITY |-> <<96 + i>>])
    ELSE \* a line of ko kai that fills more than the buffer of fgets, then "a"
         Lines(<<Utf8([i \in 1..(FGETS_BUFFER \div 3 + 1) |-> 3585]), <<97>>>>)

(* trie_load_dict reporting 0 words, not -1, for a file it cannot open. *)
trie_load_dict_ZeroOnFailure(trie, dict_path) ==
    IF dict_path = NullPath \/ ~CanOpen(dict_path)
    THEN [ret |-> 0, trie |-> trie]
    ELSE LoadLoop(trie, FgetsAll(FileContent(dict_path)), 0)

trie_load_dict(trie, dict_path) ==
    IF dict_path = NullPath \/ ~CanOpen(dict_path)
    THEN [ret |-> -1, trie |-> trie]
    ELSE LoadLoop(trie, FgetsAll(FileContent(dict_path)), 0)

(***************************************************************************)
(* newmm.c                                                                 *)
(***************************************************************************)
default_words ==
    << <<3652, 3611>>, <<3617, 3634>>, <<3651, 3609>>, <<3607, 3637, 3656>>, <<3649, 3621, 3632>>,
       <<3627, 3619, 3639, 3629>>, <<3588, 3639, 3629>>, <<3648, 3611, 3655, 3609>>, <<3617, 3637>>, <<3652, 3604, 3657>>,
       <<3592, 3632>>, <<3652, 3617, 3656>>, <<3586, 3629, 3591>>, <<3585, 3633, 3610>>, <<3585, 3655>>,
       <<3651, 3627, 3657>>, <<3606, 3657, 3634>>, <<3649, 3621, 3657, 3623>>, <<3648, 3617, 3639, 3656, 3629>>, <<3595, 3638, 3656, 3591>>,
       <<3609, 3637, 3657>>, <<3609, 3633, 3657, 3609>>, <<3629, 3618, 3641, 3656>>, <<3648, 3614, 3639, 3656, 3629>>, <<3585, 3634, 3619>>,
       <<3588, 3623, 3634, 3617>>, <<3592, 3634, 3585>>, <<3650, 3604, 3618>>, <<3629, 3618, 3656, 3634, 3591>>, <<3606, 3638, 3591>>,
       <<3623, 3656, 3634>>, <<3648, 3629, 3591>>, <<3607, 3640, 3585>>, <<3649, 3605, 3656>>, <<3605, 3634, 3617>>,
       <<3609, 3633, 3585>>, <<3618, 3633, 3591>>, <<3612, 3621>>, <<3612, 3641, 3657>>, <<3588, 3609>>,
       <<3623, 3633, 3609>>, <<3611, 3637>>, <<3648, 3604, 3639, 3629, 3609>>, <<3588, 3619, 3633, 3657, 3591>>, <<3605, 3633, 3623>>,
       <<3588, 3609>>, <<3626, 3636, 3656, 3591>>, <<3591, 3634, 3609>>, <<3586, 3657, 3629>>, <<3619, 3633, 3610>> >>

(* The loop  for (i = 0; default_words[i] != NULL; i++) trie_add(...). *)
RECURSIVE AddDefaults(_, _)
AddDefaults(trie, i) ==
    IF i > Len(default_words) THEN trie
    ELSE LET added == trie_add(trie, Utf8(default_words[i]))
         IN  IF added.num_words >= 0 THEN AddDefaults(added, i + 1) ELSE trie

(* The NULL handle: a trie with no root. *)
NullDict == [nodes |-> << >>, num_words |-> 0]

newmm_load_dict(dict_path) ==
    LET trie == trie_create
    IN  IF dict_path # NullPath
        THEN LET r == trie_load_dict(trie, dict_path)
             IN  IF r.ret < 0 THEN AddDefaults(trie, 1) ELSE r.trie
        ELSE AddDefaults(trie, 1)


substring(text, start, end) == SubSeq(text, start + 1, end)

(* LongestLoop with the comparison lost: the first length found is kept. *)
RECURSIVE LongestLoop_KeepsFirst(_, _, _)
LongestLoop_KeepsFirst(lengths, i, best_len) ==
    IF i > Len(lengths) THEN best_len
    ELSE LongestLoop_KeepsFirst(lengths, i + 1,
                                IF best_len = 0 THEN lengths[i] ELSE best_len)

(* The first loop of an iteration: the longest length of the list. *)
RECURSIVE LongestLoop(_, _, _)
LongestLoop(lengths, i, best_len) ==
    IF i > Len(lengths) THEN best_len
    ELSE LongestLoop(lengths, i + 1,
                     IF lengths[i] > best_len THEN lengths[i] ELSE best_len)

(* The loop over the shorter matches: the first one, in list order, that   *)
(* ends before the end of the text at a position where some dictionary     *)
(* word starts; best_len if there is none.                                 *)
RECURSIVE ShorterLoop(_, _, _, _, _, _)
ShorterLoop(trie, text, pos, lengths, i, best_len) ==
    IF i > Len(lengths) THEN best_len
    ELSE IF lengths[i] < best_len /\ pos + lengths[i] < Len(text)
            /\ Len(trie_prefixes(trie, text, pos + lengths[i])) > 0
         THEN lengths[i]
         ELSE ShorterLoop(trie, text, pos, lengths, i + 1, best_len)

(* ChooseMatch without the lookahead: the longest match, always. *)
ChooseMatch_Greedy(trie, text, pos) ==
    LongestLoop(trie_prefixes(trie, text, pos), 1, 0)

(* best_len after the lookahead of lines 113-180.  lengths is the array    *)
(* that the one call of trie_prefixes at pos filled: the set of one        *)
(* element binds it to its value, so that it is computed once.             *)
ChooseMatch(trie, text, pos) ==
    LET Lookahead(lengths, best_len, best_end_pos) ==
            IF best_len > 0 /\ best_end_pos < Len(text)
               /\ Len(trie_prefixes(trie, text, best_end_pos)) = 0
               /\ ~is_non_thai_char(get_utf8_codepoint(text, best_end_pos).codepoint)
            THEN ShorterLoop(trie, text, pos, lengths, 1, best_len)
            ELSE best_len
    IN  CHOOSE len \in {Lookahead(lengths, LongestLoop(lengths, 1, 0),
                                  pos + LongestLoop(lengths, 1, 0)) :
                           lengths \in {trie_prefixes(trie, text, pos)}} : TRUE

(* RunEnd with a letter run that goes on through digits. *)
RECURSIVE RunEnd_LettersTakeDigits(_, _, _, _, _)
RunEnd_LettersTakeDigits(text, end, is_space, is_alpha, is_digit) ==
    IF end >= Len(text) THEN end
    ELSE LET d == get_utf8_codepoint(text, end)
             next_cp == d.codepoint
             match == \/ is_space /\ IsSpaceTab(next_cp)
                      \/ is_alpha /\ (IsAlpha(next_cp) \/ IsDigit(next_cp))
                      \/ is_digit /\ (IsDigit(next_cp) \/ next_cp = 46 \/ next_cp = 44)
         IN  IF match
             THEN RunEnd_LettersTakeDigits(text, end + d.byte_len, is_space,
                                           is_alpha, is_digit)
             ELSE end

(* RunEnd with a digit run that stops at '.' and ','. *)
RECURSIVE RunEnd_NoSeparators(_, _, _, _, _)
RunEnd_NoSeparators(text, end, is_space, is_alpha, is_digit) ==
    IF end >= Len(text) THEN end
    ELSE LET d == get_utf8_codepoint(text, end)
             next_cp == d.codepoint
             match == \/ is_space /\ IsSpaceTab(next_cp)
                      \/ is_alpha /\ IsAlpha(next_cp)
                      \/ is_digit /\ IsDigit(next_cp)
         IN  IF match
             THEN RunEnd_NoSeparators(text, end + d.byte_len, is_space,
                                      is_alpha, is_digit)
             ELSE end

(* The inner while loop of the non-Thai branch: the end of the run. *)
RECURSIVE RunEnd(_, _, _, _, _)
RunEnd(text, end, is_space, is_alpha, is_digit) ==
    IF end >= Len(text) THEN end
    ELSE LET d == get_utf8_codepoint(text, end)
             next_cp == d.codepoint
             match == \/ is_space /\ IsSpaceTab(next_cp)
                      \/ is_alpha /\ IsAlpha(next_cp)
                      \/ is_digit /\ (IsDigit(next_cp) \/ next_cp = 46 \/ next_cp = 44)
         IN  IF match THEN RunEnd(text, end + d.byte_len, is_space, is_alpha, is_digit)
             ELSE end

(* NextBoundary that never looks at the list: the token runs to the end   *)
(* of the text.                                                            *)
NextBoundary_EndOfText(valid_pos, pos, text_len) == text_len

(* NextBoundary with >= for >: a boundary at pos itself is taken. *)
NextBoundary_Inclusive(valid_pos, pos, text_len) ==
    LET later == {i \in 1..Len(valid_pos) : valid_pos[i] >= pos}
    IN  IF later = {} THEN text_len
        ELSE valid_pos[CHOOSE i \in later : \A j \in later : i <= j]

(* The scan of the fallback branch: the first boundary after pos. *)
NextBoundary(valid_pos, pos, text_len) ==
    LET later == {i \in 1..Len(valid_pos) : valid_pos[i] > pos}
    IN  IF later = {} THEN text_len
        ELSE valid_pos[CHOOSE i \in later : \A j \in later : i <= j]

(* One iteration of the while loop of segment_text.  loc holds the locals  *)
(* pos, token_count, tokens and whether the loop was left by its break;    *)
(* branch records which branch emitted each token.                         *)
Iteration(text, trie, valid_pos, loc) ==
    LET pos == loc.pos
        best_len == ChooseMatch(trie, text, pos)
        d == get_utf8_codepoint(text, pos)
        cp == d.codepoint
        end == IF best_len > 0 THEN pos + best_len
               ELSE IF is_non_thai_char(cp)
               THEN RunEnd(text, pos + d.byte_len, IsSpaceTab(cp), IsAlpha(cp), IsDigit(cp))
               ELSE NextBoundary(valid_pos, pos, Len(text))
        how == IF best_len > 0 THEN "dict"
               ELSE IF is_non_thai_char(cp) THEN "run" ELSE "tcc"
    IN  [pos |-> end,
         token_count |-> loc.token_count + 1,
         tokens |-> Append(loc.tokens, substring(text, pos, end)),
         branch |-> Append(loc.branch, how),
         broke |-> loc.token_count + 1 >= MAX_TOKENS - 1]

LoopRuns(text, loc) == loc.pos < Len(text) /\ ~loc.broke

InitialLocals == [pos |-> 0, token_count |-> 0, tokens |-> << >>,
                  branch |-> << >>, broke |-> FALSE]

(* n iterations of the loop, or fewer if it ends before. *)
RECURSIVE Iterate(_, _, _, _, _)
Iterate(text, trie, valid_pos, loc, n) ==
    IF n = 0 \/ ~LoopRuns(text, loc) THEN loc
    ELSE IF n = 1 THEN Iteration(text, trie, valid_pos, loc)
    ELSE Iterate(text, trie, valid_pos,
                 Iterate(text, trie, valid_pos, loc, n \div 2), n - (n \div 2))

(* segment_text run to its return: every iteration consumes a byte, so the *)
(* loop makes at most Len(text) iterations.                                *)
segment_text(text, trie) ==
    LET valid_pos == tcc_pos(text)
    IN  IF Len(text) = 0 \/ Len(valid_pos) = 0
        THEN [entered |-> FALSE, valid_pos |-> << >>, loc |-> InitialLocals]
        ELSE [entered |-> TRUE, valid_pos |-> valid_pos,
              loc |-> Iterate(text, trie, valid_pos, InitialLocals, Len(text))]


(* newmm_segment_with_dict from call to return: what it returns, the token *)
(* count it stores, and the locals of segment_text at its return.          *)
newmm_segment_with_dict(t, d) ==
    IF d = NullDict \/ Len(t) = 0
    THEN [ret |-> "NULL", valid_pos |-> << >>, loc |-> InitialLocals]
    ELSE LET r == segment_text(t, d)
         IN  [ret |-> IF r.entered THEN "tokens" ELSE "NULL",
              valid_pos |-> r.valid_pos, loc |-> r.loc]

(* newmm_segment without its call of newmm_free_dict. *)
newmm_segment_NoFree(t, dict_path, trie_created) ==
    LET d == IF trie_created THEN newmm_load_dict(dict_path) ELSE NullDict
    IN  IF Len(t) = 0 \/ d = NullDict
        THEN [call |-> newmm_segment_with_dict(t, NullDict), events |-> << >>]
        ELSE [call |-> newmm_segment_with_dict(t, d),
              events |-> <<"newmm_load_dict", "newmm_segment_with_dict">>]

(* newmm_segment from call to return.  trie_created says whether the       *)
(* allocations of trie_create succeed (newmm_load_dict returns NULL if     *)
(* not).  events lists, in order, the calls made with the handle that      *)
(* newmm_load_dict returned.                                               *)
newmm_segment(t, dict_path, trie_created) ==
    IF Len(t) = 0
    THEN [call |-> [ret |-> "NULL", valid_pos |-> << >>, loc |-> InitialLocals],
          events |-> << >>]
    ELSE LET d == IF trie_created THEN newmm_load_dict(dict_path) ELSE NullDict
         IN  IF d = NullDict
             THEN [call |-> [ret |-> "NULL", valid_pos |-> << >>,
                             loc |-> InitialLocals],
                   events |-> << >>]
             ELSE [call |-> newmm_segment_with_dict(t, d),
                   events |-> <<"newmm_load_dict", "newmm_segment_with_dict",
                                "newmm_free_dict">>]

(***************************************************************************)
(* The state machine.                                                      *)
(*   dict, dict_path  the loaded dictionary handle (NullDict if none) and  *)
(*                    the path it was loaded from                          *)
(*   pc               "idle": no call in progress; "loop": inside the      *)
(*                    while loop of segment_text; "done": the call has     *)
(*                    returned and the caller holds its result             *)
(*   text, valid_pos, pos, token_count, tokens, broke                      *)
(*                    the argument and locals of segment_text              *)
(*   branch           which branch emitted each token                      *)
(*   ret              what newmm_segment_with_dict returned: "NULL" or     *)
(*                    "tokens" (the array), "none" before it returns       *)
(*   memo             one earlier result, kept to compare later results    *)
(*                    with: its text, tokens, count and return value, the  *)
(*                    path of the handle and the words of its trie         *)
(*   added, last_add, adds   the words given to trie_add so far, the last  *)
(*                    call's word and whether it was given before, and     *)
(*                    the number of calls                                  *)
(*   once             the newmm_segment call that gave the result held:    *)
(*                    its dict_path argument, whether trie_create gave it  *)
(*                    a trie, and what it did with its dictionary handle   *)
(*   other            a second call of newmm_segment_with_dict, made by    *)
(*                    another thread with the same handle: its position,   *)
(*                    argument, locals and return value                    *)
(*   mem              the children arrays of the trie on the C heap: the   *)
(*                    nodes whose children pointer refers to a freed       *)
(*                    block, the blocks no pointer refers to, and whether  *)
(*                    the last trie_add gave up on a failed allocation     *)
(*   load             the last trie_load_dict on the trie: its path, what  *)
(*                    it returned, the words of the trie before and after  *)
(*   dict_cache       the static dict_cache of the Python module: the      *)
(*                    cached handle (0 is NULL) and the copy of its path   *)
(*   py               the rest of the Python module's process: the tries   *)
(*                    newmm_load_dict returned with the number of times    *)
(*                    each was freed, and the last call with its argument, *)
(*                    the handle it segmented with and its result          *)
(*   decoded          the last call of get_utf8_codepoint: its buffer and  *)
(*                    offset, what it returned and the offsets it read     *)
(*   bufs             the buffers of a segmentation in which an allocation *)
(*                    may fail: which one failed, whether the boundary     *)
(*                    list was allocated and how often it was freed        *)
(***************************************************************************)
VARIABLES dict, dict_path, pc, text, valid_pos, pos, token_count, tokens,
          broke, branch, ret, memo, added, last_add, adds, once, other, mem,
          load, dict_cache, py, decoded, bufs

vars == <<dict, dict_path, pc, text, valid_pos, pos, token_count, tokens,
          broke, branch, ret, memo, added, last_add, adds, once, other, mem,
          load, dict_cache, py, decoded, bufs>>

callVars == <<text, valid_pos, pos, token_count, tokens, broke, branch, ret>>
trieVars == <<added, last_add, adds>>
moreVars == <<load, dict_cache, py, decoded, bufs>>
auxVars == <<once, other, mem, moreVars>>

(* Inputs. *)
Alphabet == {3585, 3634, 3648, 3656, 97, 49, 46, 32, 233}

CharSeqs(n) == UNION {[1..k -> Alphabet] : k \in 0..n}

HelloWorld == Utf8(<<104, 101, 108, 108, 111, 32, 119, 111, 114, 108, 100>>)
OneTwoThree == Utf8(<<49, 50, 51>>)
PaiAbc123 == Utf8(<<3652, 3611, 32, 65, 66, 67, 32, 49, 50, 51>>)

ExampleTexts ==
    {ChanPaiRongRian, HelloWorld, OneTwoThree, PaiAbc123,
     Utf8(<<3585, 3634, 3585>>),                \* ko kai, sara aa, ko kai
     Utf8(<<3585, 3634, 3648>>),                \* ko kai, sara aa, sara e
     Utf8(<<3648, 3585, 3585, 3656, 3634>>),    \* sara e, ko kai x 2, mai ek, sara aa
     Utf8(<<49, 44, 53, 46, 97, 9, 32, 45>>),   \* "1,5.a<TAB> -"
     Utf8(<<97, 49, 97, 32, 97>>),              \* "a1a a"
     Utf8(<<3652, 3611, 32, 3585, 3634>>)}      \* "pai", space, ko kai, sara aa

Texts == {Utf8(cs) : cs \in CharSeqs(MaxTextChars)} \cup ExampleTexts

Paths == {NullPath, MissingPath, ThaiPath, MixedPath}
         \cup {WordsPath(S) : S \in SUBSET (1..Len(ExtraWords))}

NoMemo == [has |-> FALSE, path |-> NoPath, words |-> {}, text |-> << >>,
           tokens |-> << >>, token_count |-> 0, ret |-> "none"]
NoAdd == [word |-> << >>, again |-> FALSE]
NoOnce == [active |-> FALSE, path |-> NoPath, created |-> FALSE, events |-> << >>]
NoOther == [pc |-> "idle", text |-> << >>, valid_pos |-> << >>,
            loc |-> InitialLocals, ret |-> "none"]
NoMem == [dangling |-> {}, leaked |-> 0, failed |-> FALSE, num_words |-> 0,
          words |-> {}]

NoLoad == [called |-> FALSE, path |-> NoPath, ret |-> 0, words |-> {},
           after |-> {}, num_words |-> 0]
NoCache == [dict |-> 0, dict_path |-> NullPath]
NoPy == [heap |-> << >>, op |-> "none", arg |-> NoPath, used |-> 0,
         used_frees |-> 0, ret |-> "none", tokens |-> << >>, turn |-> 0]
NoDecoded == [called |-> FALSE, text |-> << >>, off |-> 0, codepoint |-> 0,
              byte_len |-> 0, reads |-> {}, fault |-> FALSE]
NoBufs == [called |-> FALSE, fail |-> "none", allocated |-> FALSE, frees |-> 0,
           tokens_live |-> FALSE, outcome |-> "none", words |-> {}]

Idle ==
    /\ pc = "idle" /\ text = << >> /\ valid_pos = << >> /\ pos = 0
    /\ token_count = 0 /\ tokens = << >> /\ broke = FALSE /\ branch = << >>
    /\ ret = "none"

Init ==
    /\ dict = NullDict /\ dict_path = NoPath
    /\ Idle
    /\ memo = NoMemo /\ added = {} /\ last_add = NoAdd /\ adds = 0
    /\ once = NoOnce /\ other = NoOther /\ mem = NoMem
    /\ load = NoLoad /\ dict_cache = NoCache /\ py = NoPy
    /\ decoded = NoDecoded /\ bufs = NoBufs

(* newmm_load_dict(path), the handle kept by the caller. *)
LoadDict(path) ==
    /\ pc = "idle" /\ dict = NullDict
    /\ dict' = newmm_load_dict(path)
    /\ dict_path' = path
    /\ UNCHANGED <<pc, callVars, memo, trieVars, auxVars>>

(* newmm_free_dict(dict), or trie_free(dict), when no call uses the handle *)
(* and every children pointer of the trie is good.                         *)
FreeDict ==
    /\ pc = "idle" /\ other.pc = "idle" /\ dict # NullDict
    /\ mem.dangling = {}
    /\ dict' = NullDict /\ dict_path' = NoPath
    /\ added' = {} /\ last_add' = NoAdd /\ adds' = 0
    /\ mem' = NoMem /\ load' = NoLoad
    /\ UNCHANGED <<pc, callVars, memo, once, other, dict_cache, py, decoded, bufs>>

(* newmm_segment_with_dict(t, dict, &token_count) up to the while loop of  *)
(* segment_text, or to its return when the loop is not entered.            *)
SegmentBegin(t) ==
    /\ pc = "idle" /\ dict # NullDict
    /\ text' = t
    /\ token_count' = 0 /\ pos' = 0 /\ tokens' = << >> /\ branch' = << >>
    /\ broke' = FALSE
    /\ \E positions \in {tcc_pos(t)} :
           IF Len(t) = 0 \/ Len(positions) = 0
           THEN valid_pos' = << >> /\ pc' = "done" /\ ret' = "NULL"
           ELSE valid_pos' = positions /\ pc' = "loop" /\ ret' = "none"
    /\ UNCHANGED <<dict, dict_path, memo, trieVars, auxVars>>

Locals == [pos |-> pos, token_count |-> token_count, tokens |-> tokens,
           branch |-> branch, broke |-> broke]

(* One iteration of the while loop. *)
SegmentIterate ==
    /\ pc = "loop" /\ LoopRuns(text, Locals)
    /\ \E n \in {Iteration(text, dict, valid_pos, Locals)} :
           /\ pos' = n.pos /\ token_count' = n.token_count
           /\ tokens' = n.tokens /\ branch' = n.branch /\ broke' = n.broke
    /\ UNCHANGED <<dict, dict_path, pc, text, valid_pos, ret, memo, trieVars,
                   auxVars>>

(* The loop has ended: free(valid_pos), return token_count and the array. *)
SegmentReturn ==
    /\ pc = "loop" /\ ~LoopRuns(text, Locals)
    /\ pc' = "done" /\ ret' = "tokens"
    /\ UNCHANGED <<dict, dict_path, text, valid_pos, pos, token_count, tokens,
                   broke, branch, memo, trieVars, auxVars>>

(* The caller is done with the result: newmm_free_result(tokens, count). *)
FreeResult ==
    /\ pc = "done"
    /\ pc' = "idle" /\ text' = << >> /\ valid_pos' = << >> /\ pos' = 0
    /\ token_count' = 0 /\ tokens' = << >> /\ broke' = FALSE /\ branch' = << >>
    /\ ret' = "none"
    /\ once' = NoOnce
    /\ UNCHANGED <<dict, dict_path, memo, trieVars, other, mem, moreVars>>

(* newmm_segment_with_dict(t, dict, &token_count) from call to return. *)
SegmentCall(t) ==
    /\ pc = "idle" /\ dict # NullDict
    /\ text' = t
    /\ \E r \in {segment_text(t, dict)} :
           /\ pos' = r.loc.pos /\ token_count' = r.loc.token_count
           /\ tokens' = r.loc.tokens /\ branch' = r.loc.branch
           /\ broke' = r.loc.broke
           /\ valid_pos' = r.valid_pos
           /\ ret' = IF r.entered THEN "tokens" ELSE "NULL"
    /\ pc' = "done"
    /\ UNCHANGED <<dict, dict_path, memo, trieVars, auxVars>>

Next ==
    \/ \E path \in Paths : LoadDict(path)
    \/ FreeDict
    \/ \E t \in Texts : SegmentBegin(t)
    \/ SegmentIterate
    \/ SegmentReturn
    \/ FreeResult

Spec == Init /\ [][Next]_vars

(***************************************************************************)
(* Whole calls, on texts that reach the token ceiling too.                 *)
(***************************************************************************)
(* "a a a ...", n bytes: every byte is a token of its own. *)
LetterSpace(n) == << >> \o [i \in 1..n |-> IF i % 2 = 1 THEN 97 ELSE 32]

CapTexts ==
    {LetterSpace(n) : n \in (MAX_TOKENS - 1)..MAX_TOKENS}
    \cup {Utf8(cs) : cs \in CharSeqs(MaxTextChars)}

CapPaths == {NullPath, MixedPath}

NextCap ==
    \/ \E path \in CapPaths : LoadDict(path)
    \/ FreeDict
    \/ \E t \in CapTexts : SegmentCall(t)
    \/ FreeResult

SpecCap == Init /\ [][NextCap]_vars


(***************************************************************************)
(* The trie alone: a trie is created, words are added to it, it is freed.  *)
(***************************************************************************)
AddWords ==
    {Utf8(<<3585>>),            \* ko kai
     Utf8(<<3585, 3634>>),      \* ko kai, sara aa
     Utf8(<<32, 3585, 10>>),    \* " ", ko kai, "\n"
     Utf8(<<97>>),              \* "a"
     Utf8(<<97, 32, 97>>),      \* "a a"
     Utf8(<<9, 32>>),           \* "\t "
     << >>}

(* trie_create(), the handle kept in dict. *)
TrieCreate ==
    /\ pc = "idle" /\ dict = NullDict
    /\ dict' = trie_create
    /\ added' = {} /\ last_add' = NoAdd /\ adds' = 0
    /\ UNCHANGED <<dict_path, pc, callVars, memo, auxVars>>

(* trie_add(dict, w) *)
TrieAdd(w) ==
    /\ pc = "idle" /\ dict # NullDict /\ adds < MaxAdds
    /\ dict' = trie_add(dict, w)
    /\ added' = added \cup {w}
    /\ last_add' = [word |-> w, again |-> w \in added]
    /\ adds' = adds + 1
    /\ UNCHANGED <<dict_path, pc, callVars, memo, auxVars>>

(* trie_load_dict(dict, path) on the trie just created: wide.txt fills     *)
(* the children array of the root.                                         *)
TrieLoad(path) ==
    /\ pc = "idle" /\ dict = trie_create /\ CanOpen(path)
    /\ dict' = trie_load_dict(dict, path).trie
    /\ added' = added \cup {StripNewline(b) : b \in Range(FgetsAll(FileContent(path)))}
    /\ UNCHANGED <<dict_path, pc, callVars, memo, last_add, adds, auxVars>>

NextTrie ==
    \/ TrieCreate
    \/ TrieLoad(WidePath)
    \/ \E w \in AddWords : TrieAdd(w)
    \/ FreeDict

SpecTrie == Init /\ [][NextTrie]_vars

(***************************************************************************)
(* One handle after another, each used for any number of calls; one        *)
(* result is remembered.                                                   *)
(***************************************************************************)
ReuseAlphabet == {3585, 3634, 97, 49, 32}

ReuseTexts ==
    UNION {{Utf8(cs) : cs \in [1..k -> ReuseAlphabet]} : k \in 0..MaxReuseChars}
    \cup {Utf8(<<97, 49>>), Utf8(<<97, 49, 97, 32, 97>>), Utf8(<<3585, 3634, 3648>>)}

ReusePaths == {ThaiPath, MixedPath, Mixed2Path}

(* The caller keeps a copy of the result it holds. *)
Remember ==
    /\ pc = "done" /\ ~memo.has
    /\ memo' = [has |-> TRUE, path |-> dict_path, words |-> WordsOf(dict),
                text |-> text, tokens |-> tokens, token_count |-> token_count,
                ret |-> ret]
    /\ UNCHANGED <<dict, dict_path, pc, callVars, trieVars, auxVars>>

NextReuse ==
    \/ \E path \in ReusePaths : LoadDict(path)
    \/ FreeDict
    \/ \E t \in ReuseTexts : SegmentBegin(t)
    \/ SegmentIterate
    \/ SegmentReturn
    \/ Remember
    \/ FreeResult

SpecReuse == Init /\ [][NextReuse]_vars

(***************************************************************************)
(* Calls that run to their return.                                         *)
(***************************************************************************)
(* A call that has begun runs on: the thread that makes it is scheduled    *)
(* again and again until the call returns.                                 *)
TermTexts == ReuseTexts

TermPaths == {NullPath, ThaiPath, MixedPath, WordsPath({3})}

NextTerm ==
    \/ \E path \in TermPaths : LoadDict(path)
    \/ FreeDict
    \/ \E t \in TermTexts : SegmentBegin(t)
    \/ SegmentIterate
    \/ SegmentReturn
    \/ FreeResult

SpecTerm ==
    Init /\ [][NextTerm]_vars /\ WF_vars(SegmentIterate) /\ WF_vars(SegmentReturn)

(***************************************************************************)
(* One-shot callers: newmm_segment loads, segments and frees in one call.  *)
(***************************************************************************)
OncePaths == {NullPath, MissingPath, ThaiPath, MixedPath, WordsPath({}),
              WordsPath({3})}

(* newmm_segment(t, path, &token_count) from call to return. *)
SegmentOnce(t, path, trie_created) ==
    /\ pc = "idle"
    /\ text' = t
    /\ \E r \in {newmm_segment(t, path, trie_created)} :
           /\ pos' = r.call.loc.pos /\ token_count' = r.call.loc.token_count
           /\ tokens' = r.call.loc.tokens /\ branch' = r.call.loc.branch
           /\ broke' = r.call.loc.broke
           /\ valid_pos' = r.call.valid_pos
           /\ ret' = r.call.ret
           /\ once' = [active |-> TRUE, path |-> path, created |-> trie_created,
                       events |-> r.events]
    /\ pc' = "done"
    /\ UNCHANGED <<dict, dict_path, memo, trieVars, other, mem, moreVars>>

NextOnce ==
    \/ \E t \in Texts, path \in OncePaths, trie_created \in BOOLEAN :
           SegmentOnce(t, path, trie_created)
    \/ FreeResult

SpecOnce == Init /\ [][NextOnce]_vars

(***************************************************************************)
(* Two threads call newmm_segment_with_dict with one handle; their steps   *)
(* interleave in any order.  The handle is loaded before and freed after.  *)
(***************************************************************************)
SharedPaths == {ThaiPath, MixedPath}

(* The locals of the second call, were pos kept in static storage that    *)
(* all calls share.                                                        *)
OtherLocals_SharedPos == [other.loc EXCEPT !.pos = pos]

(* The locals of the second call: automatic variables of its own. *)
OtherLocals == other.loc

OtherBegin(t) ==
    /\ other.pc = "idle" /\ dict # NullDict
    /\ \E positions \in {tcc_pos(t)} :
           other' = IF Len(t) = 0 \/ Len(positions) = 0
                    THEN [pc |-> "done", text |-> t, valid_pos |-> << >>,
                          loc |-> InitialLocals, ret |-> "NULL"]
                    ELSE [pc |-> "loop", text |-> t, valid_pos |-> positions,
                          loc |-> InitialLocals, ret |-> "none"]
    /\ UNCHANGED <<dict, dict_path, pc, callVars, memo, trieVars, once,
                   mem, moreVars>>

OtherIterate ==
    /\ other.pc = "loop" /\ LoopRuns(other.text, OtherLocals)
    /\ other' = [other EXCEPT
                    !.loc = Iteration(other.text, dict, other.valid_pos, OtherLocals)]
    /\ UNCHANGED <<dict, dict_path, pc, callVars, memo, trieVars, once,
                   mem, moreVars>>

OtherReturn ==
    /\ other.pc = "loop" /\ ~LoopRuns(other.text, OtherLocals)
    /\ other' = [other EXCEPT !.pc = "done", !.ret = "tokens"]
    /\ UNCHANGED <<dict, dict_path, pc, callVars, memo, trieVars, once,
                   mem, moreVars>>

(* The second thread is done with its result: newmm_free_result. *)
OtherFree ==
    /\ other.pc = "done"
    /\ other' = NoOther
    /\ UNCHANGED <<dict, dict_path, pc, callVars, memo, trieVars, once,
                   mem, moreVars>>

NextShared ==
    \/ \E path \in SharedPaths : LoadDict(path)
    \/ FreeDict
    \/ \E t \in ReuseTexts : SegmentBegin(t)
    \/ SegmentIterate
    \/ SegmentReturn
    \/ FreeResult
    \/ \E t \in ReuseTexts : OtherBegin(t)
    \/ OtherIterate
    \/ OtherReturn
    \/ OtherFree

SpecShared == Init /\ [][NextShared]_vars

(***************************************************************************)
(* The scanner alone: tcc_pos(t, &positions), then free(positions).        *)
(***************************************************************************)
TccTexts ==
    Texts \cup {Utf8(<<3648, 3585, 3632>>),         \* sara e, ko kai, sara a
                Utf8(<<3585, 3640, 3660, 3634>>),   \* ko kai, sara u, thanthakhat, sara aa
                Utf8(<<3652, 97, 3648>>),           \* sara ai maimalai, "a", sara e
                Utf8(<<3648, 3585, 3637, 3656, 3618>>),  \* sara e, ko kai, sara ii, mai ek, yo yak
                Utf8(<<3656, 3585, 3585, 3585>>)}   \* mai ek, ko kai x 3

TccPos(t) ==
    /\ pc = "idle"
    /\ text' = t /\ valid_pos' = tcc_pos(t)
    /\ pc' = "done"
    /\ UNCHANGED <<dict, dict_path, pos, token_count, tokens, broke, branch,
                   ret, memo, trieVars, auxVars>>

TccFree ==
    /\ pc = "done"
    /\ text' = << >> /\ valid_pos' = << >>
    /\ pc' = "idle"
    /\ UNCHANGED <<dict, dict_path, pos, token_count, tokens, broke, branch,
                   ret, memo, trieVars, auxVars>>

NextTcc ==
    \/ \E t \in TccTexts : TccPos(t)
    \/ TccFree

SpecTcc == Init /\ [][NextTcc]_vars

(***************************************************************************)
(* The loader: a trie is created, words are added to it, a file is loaded  *)
(* into it with trie_load_dict, it is freed.                               *)
(***************************************************************************)
LoadWords == {Utf8(<<3585>>), Utf8(<<97>>), Utf8(<<49, 97>>)}

LoadPaths ==
    {NullPath, MissingPath, ThaiPath, MixedPath, Mixed2Path, WidePath, LongPath}

(* ret = trie_load_dict(dict, path), once for a trie. *)
TrieLoadDict(path) ==
    /\ pc = "idle" /\ dict # NullDict /\ ~load.called
    /\ \E r \in {trie_load_dict(dict, path)} :
           /\ dict' = r.trie
           /\ load' = [called |-> TRUE, path |-> path, ret |-> r.ret,
                       words |-> WordsOf(dict), after |-> WordsOf(r.trie),
                       num_words |-> r.trie.num_words]
    /\ added' = IF path # NullPath /\ CanOpen(path)
                THEN added \cup {StripNewline(b) :
                                    b \in Range(FgetsAll(FileContent(path)))}
                ELSE added
    /\ UNCHANGED <<dict_path, pc, callVars, memo, last_add, adds, once, other,
                   mem, dict_cache, py, decoded, bufs>>

NextLoad ==
    \/ TrieCreate
    \/ \E w \in LoadWords : TrieAdd(w)
    \/ \E path \in LoadPaths : TrieLoadDict(path)
    \/ FreeDict

SpecLoad == Init /\ [][NextLoad]_vars

(***************************************************************************)
(* The trie alone, with allocations that may fail in trie_add.  Once a     *)
(* children pointer refers to a freed block, every use of the trie, its    *)
(* trie_free too, reads that block: the behaviour is undefined and the     *)
(* model follows the trie no further.                                      *)
(***************************************************************************)
OomWords ==
    {Utf8(<<105>>),            \* "i"
     Utf8(<<97, 98>>),         \* "ab"
     Utf8(<<97>>),             \* "a"
     Utf8(<<3585, 3586>>)}     \* ko kai, kho khai

(* trie_add(dict, w) with the allocation outcomes fail_at and moves. *)
TrieAddAlloc(w, fail_at, moves) ==
    /\ pc = "idle" /\ dict # NullDict /\ adds < MaxOomAdds
    /\ mem.dangling = {}
    /\ \E r \in {trie_add_alloc(dict, w, fail_at, moves)} :
           /\ dict' = r.trie
           /\ mem' = [dangling |-> mem.dangling \cup r.dangling,
                      leaked |-> mem.leaked + r.leaked,
                      failed |-> r.failed,
                      num_words |-> dict.num_words,
                      words |-> WordsOf(dict)]
           /\ added' = IF r.failed THEN added ELSE added \cup {w}
    /\ last_add' = [word |-> w, again |-> w \in added]
    /\ adds' = adds + 1
    /\ UNCHANGED <<dict_path, pc, callVars, memo, once, other, moreVars>>

NextOom ==
    \/ TrieCreate
    \/ TrieLoad(WidePath)
    \/ \E w \in OomWords, fail_at \in 0..MaxAllocs, moves \in BOOLEAN :
           TrieAddAlloc(w, fail_at, moves)
    \/ FreeDict

SpecOom == Init /\ [][NextOom]_vars

(***************************************************************************)
(* The Python extension module (cthainlp_wrapper.c): segment(text,         *)
(* dict_path), clear_cache() and the module's m_free, around the static    *)
(* dict_cache.  A handle is the index of its trie in py.heap, 0 is NULL;   *)
(* heap[h].frees counts the calls of newmm_free_dict on handle h.          *)
(***************************************************************************)
MaxLoads == 3

WrapTexts == {<< >>, Utf8(<<3585, 3634, 97, 49>>)}
WrapPaths == {NullPath, MissingPath, ThaiPath, MixedPath}

(* get_or_load_dict that reloads at every call. *)
need_reload_Always(cache, path) == TRUE

(* The value of need_reload at line 41 of get_or_load_dict. *)
need_reload(cache, path) ==
    IF cache.dict = 0 THEN TRUE
    ELSE IF path = NullPath /\ cache.dict_path # NullPath THEN TRUE
    ELSE IF path # NullPath /\ cache.dict_path = NullPath THEN TRUE
    ELSE IF path # NullPath /\ cache.dict_path # NullPath
    THEN path.file # cache.dict_path.file          \* strcmp(...) != 0
    ELSE FALSE

(* The release that frees the dictionary and keeps the pointer to it. *)
ReleaseCache_KeepsPointer(w) ==
    [cache |-> [w.cache EXCEPT !.dict_path = NullPath],
     heap |-> IF w.cache.dict # 0
              THEN [w.heap EXCEPT ![w.cache.dict].frees = @ + 1] ELSE w.heap]

(* The release of the cached dictionary and of the copy of its path, as    *)
(* get_or_load_dict, py_clear_cache and module_free each spell it out.     *)
ReleaseCache(w) ==
    [cache |-> NoCache,
     heap |-> IF w.cache.dict # 0
              THEN [w.heap EXCEPT ![w.cache.dict].frees = @ + 1] ELSE w.heap]

(* get_or_load_dict(path): the cache and heap after it and the handle it   *)
(* returns.  load_ok: newmm_load_dict returns a trie; strdup_ok: strdup    *)
(* returns a copy.                                                         *)
get_or_load_dict(w, path, load_ok, strdup_ok) ==
    LET Loaded(r, heap, h) ==
            IF h # 0 /\ path # NullPath
            THEN IF strdup_ok
                 THEN [cache |-> [dict |-> h, dict_path |-> path], heap |-> heap,
                       ret |-> h]
                 ELSE [cache |-> [dict |-> 0, dict_path |-> r.cache.dict_path],
                       heap |-> [heap EXCEPT ![h].frees = @ + 1], ret |-> 0]
            ELSE [cache |-> [dict |-> h, dict_path |-> r.cache.dict_path],
                  heap |-> heap, ret |-> h]
    IN  IF need_reload(w.cache, path)
        THEN CHOOSE g \in
                 {IF load_ok
                  THEN Loaded(r, Append(r.heap, [trie |-> trie, frees |-> 0]),
                              Len(r.heap) + 1)
                  ELSE Loaded(r, r.heap, 0) :
                      r \in {ReleaseCache(w)},
                      trie \in {IF load_ok THEN newmm_load_dict(path) ELSE NullDict}} :
                 TRUE
        ELSE [cache |-> w.cache, heap |-> w.heap, ret |-> w.cache.dict]

(* segment(t, path): py_newmm_segment to its return.  turn tells one call  *)
(* of the module from the next.                                            *)
PySegment(t, path, load_ok, strdup_ok) ==
    /\ Len(py.heap) < MaxLoads \/ ~need_reload(dict_cache, path)
    /\ \E g \in {get_or_load_dict([cache |-> dict_cache, heap |-> py.heap],
                                   path, load_ok, strdup_ok)} :
           /\ dict_cache' = g.cache
           /\ IF g.ret = 0
              THEN py' = [heap |-> g.heap, op |-> "segment", arg |-> path,
                          used |-> 0, used_frees |-> 0, ret |-> "RuntimeError",
                          tokens |-> << >>, turn |-> 1 - py.turn]
              ELSE \E s \in {newmm_segment_with_dict(t, g.heap[g.ret].trie)} :
                       py' = [heap |-> g.heap, op |-> "segment", arg |-> path,
                              used |-> g.ret, used_frees |-> g.heap[g.ret].frees,
                              ret |-> IF s.ret = "NULL" THEN "RuntimeError"
                                      ELSE "list",
                              tokens |-> s.loc.tokens, turn |-> 1 - py.turn]
    /\ UNCHANGED <<dict, dict_path, pc, callVars, memo, trieVars, once, other,
                   mem, load, decoded, bufs>>

(* clear_cache() *)
PyClearCache ==
    /\ \E r \in {ReleaseCache([cache |-> dict_cache, heap |-> py.heap])} :
           /\ dict_cache' = r.cache
           /\ py' = [heap |-> r.heap, op |-> "clear_cache", arg |-> NoPath,
                     used |-> 0, used_frees |-> 0, ret |-> "None",
                     tokens |-> << >>, turn |-> 1 - py.turn]
    /\ UNCHANGED <<dict, dict_path, pc, callVars, memo, trieVars, once, other,
                   mem, load, decoded, bufs>>

(* module_free(self) *)
ModuleFree ==
    /\ \E r \in {ReleaseCache([cache |-> dict_cache, heap |-> py.heap])} :
           /\ dict_cache' = r.cache
           /\ py' = [heap |-> r.heap, op |-> "module_free", arg |-> NoPath,
                     used |-> 0, used_frees |-> 0, ret |-> "none",
                     tokens |-> << >>, turn |-> 1 - py.turn]
    /\ UNCHANGED <<dict, dict_path, pc, callVars, memo, trieVars, once, other,
                   mem, load, decoded, bufs>>

(* The process exits (the heap goes with it) and the module is imported    *)
(* by a new one.                                                           *)
PyRestart ==
    /\ py # NoPy
    /\ py' = NoPy /\ dict_cache' = NoCache
    /\ UNCHANGED <<dict, dict_path, pc, callVars, memo, trieVars, once, other,
                   mem, load, decoded, bufs>>

NextWrapper ==
    \/ \E t \in WrapTexts, path \in WrapPaths, load_ok, strdup_ok \in BOOLEAN :
           PySegment(t, path, load_ok, strdup_ok)
    \/ PyClearCache
    \/ ModuleFree
    \/ PyRestart

SpecWrapper == Init /\ [][NextWrapper]_vars

(***************************************************************************)
(* The decoder alone: get_utf8_codepoint(str + off, &byte_len) on a buffer *)
(* that holds the bytes of s, the NUL, and then bytes that are not part of *)
(* the string.  A read after the NUL is outside the string: it gives       *)
(* whatever lies there, or the process faults.                             *)
(***************************************************************************)
MaxDecodeBytes == 2

DecodeBytes == {97, 195, 169, 224, 184, 129, 240, 159, 255}
DecodeTexts == UNION {[1..k -> DecodeBytes] : k \in 1..MaxDecodeBytes}
AfterBytes == {<<0, 0>>, <<191, 65>>, <<128, 128>>}

(* The offsets get_utf8_codepoint reads: str[0], then str[1] to            *)
(* str[len - 1].                                                           *)
get_utf8_codepoint_reads(s, off) ==
    {off + i : i \in 0..(utf8_char_len(ByteAt(s, off)) - 1)}

GetCodepoint(s, off, after, fault) ==
    /\ off < Len(s)
    /\ \E d \in {get_utf8_codepoint(s \o <<0>> \o after, off)},
          reads \in {get_utf8_codepoint_reads(s, off)} :
           /\ fault => \E r \in reads : r > Len(s)
           /\ after # <<0, 0>> => \E r \in reads : r > Len(s)
           /\ decoded' = [called |-> TRUE, text |-> s, off |-> off,
                          codepoint |-> IF fault THEN 0 ELSE d.codepoint,
                          byte_len |-> IF fault THEN 0 ELSE d.byte_len,
                          reads |-> reads, fault |-> fault]
    /\ UNCHANGED <<dict, dict_path, pc, callVars, memo, trieVars, once, other,
                   mem, load, dict_cache, py, bufs>>

NextDecode ==
    \E s \in DecodeTexts, off \in 0..(MaxDecodeBytes - 1), after \in AfterBytes,
       fault \in BOOLEAN :
        GetCodepoint(s, off, after, fault)

SpecDecode == Init /\ [][NextDecode]_vars

(***************************************************************************)
(* Segmentation with allocations that may fail: the malloc of the boundary *)
(* list in tcc_pos, the realloc that grows it, the malloc of the token     *)
(* array in segment_text.  frees counts the calls of free on the boundary  *)
(* list; freeing it twice is undefined: the call returns all the same, or  *)
(* the allocator aborts the process.                                       *)
(***************************************************************************)
TCC_CAPACITY == 100

AllocFailures == {"none", "list", "grow", "tokens"}

AllocTexts ==
    {LetterSpace(TCC_CAPACITY + 1),    \* 101 clusters: the list grows
     LetterSpace(TCC_CAPACITY),        \* 100 clusters: it does not
     Utf8(<<3585, 3634, 97, 49>>), Utf8(<<3585, 3585>>), << >>}

(* tcc_pos when the allocation that fail names returns NULL: the count it  *)
(* returns, what *positions is at its return and how often it freed the    *)
(* list.                                                                   *)
tcc_pos_alloc(s, fail) ==
    LET positions == tcc_pos(s)
    IN  IF Len(s) = 0
        THEN [count |-> 0, ptr |-> "unset", allocated |-> FALSE, frees |-> 0,
              positions |-> << >>]
        ELSE IF fail = "list"
        THEN [count |-> 0, ptr |-> "null", allocated |-> FALSE, frees |-> 0,
              positions |-> << >>]
        ELSE IF fail = "grow" /\ Len(positions) > TCC_CAPACITY
        THEN [count |-> 0, ptr |-> "freed", allocated |-> TRUE, frees |-> 1,
              positions |-> << >>]
        ELSE [count |-> Len(positions), ptr |-> "live", allocated |-> TRUE,
              frees |-> 0, positions |-> positions]

(* free(valid_pos) after tcc_pos: nothing for NULL, one more free of the   *)
(* list otherwise, freed before or not.                                    *)
FreeValidPos(r) == IF r.ptr = "null" THEN r.frees ELSE r.frees + 1

(* segment_text with the same failure. *)
segment_text_alloc(t, trie, fail) ==
    IF Len(t) = 0
    THEN [entered |-> FALSE, valid_pos |-> << >>, loc |-> InitialLocals,
          allocated |-> FALSE, frees |-> 0, failed |-> FALSE]
    ELSE LET r == tcc_pos_alloc(t, fail)
         IN  IF r.count = 0
             THEN [entered |-> FALSE, valid_pos |-> << >>, loc |-> InitialLocals,
                   allocated |-> r.allocated, frees |-> FreeValidPos(r),
                   failed |-> TRUE]
             ELSE IF fail = "tokens"
             THEN [entered |-> FALSE, valid_pos |-> << >>, loc |-> InitialLocals,
                   allocated |-> r.allocated, frees |-> FreeValidPos(r),
                   failed |-> TRUE]
             ELSE [entered |-> TRUE, valid_pos |-> r.positions,
                   loc |-> Iterate(t, trie, r.positions, InitialLocals, Len(t)),
                   allocated |-> r.allocated, frees |-> FreeValidPos(r),
                   failed |-> FALSE]

(* newmm_segment_with_dict(t, dict, &token_count) from call to return,     *)
(* with the failure fail; aborts: the allocator ends the process at a      *)
(* second free of the same block.                                          *)
SegmentAlloc(t, fail, aborts) ==
    /\ pc = "idle" /\ dict # NullDict
    /\ text' = t
    /\ \E r \in {segment_text_alloc(t, dict, fail)} :
           /\ r.failed = (fail # "none")
           /\ aborts => r.frees > 1
           /\ pos' = r.loc.pos /\ token_count' = r.loc.token_count
           /\ tokens' = r.loc.tokens /\ branch' = r.loc.branch
           /\ broke' = r.loc.broke
           /\ valid_pos' = r.valid_pos
           /\ ret' = IF r.entered THEN "tokens" ELSE "NULL"
           /\ bufs' = [called |-> TRUE, fail |-> fail, allocated |-> r.allocated,
                       frees |-> r.frees, tokens_live |-> r.entered,
                       outcome |-> IF aborts THEN "aborted" ELSE "returned",
                       words |-> WordsOf(dict)]
    /\ pc' = "done"
    /\ UNCHANGED <<dict, dict_path, memo, trieVars, once, other, mem, load,
                   dict_cache, py, decoded>>

(* newmm_free_result(tokens, token_count), or the process started again    *)
(* after an abort.                                                         *)
AllocFree ==
    /\ pc = "done"
    /\ pc' = "idle" /\ text' = << >> /\ valid_pos' = << >> /\ pos' = 0
    /\ token_count' = 0 /\ tokens' = << >> /\ broke' = FALSE /\ branch' = << >>
    /\ ret' = "none"
    /\ bufs' = NoBufs
    /\ UNCHANGED <<dict, dict_path, memo, trieVars, once, other, mem, load,
                   dict_cache, py, decoded>>

NextAlloc ==
    \/ \E path \in Paths : LoadDict(path)
    \/ FreeDict
    \/ \E t \in AllocTexts, fail \in AllocFailures, aborts \in BOOLEAN :
           SegmentAlloc(t, fail, aborts)
    \/ AllocFree

SpecAlloc == Init /\ [][NextAlloc]_vars

(***************************************************************************)
(* Definitions the properties are stated with.                             *)
(***************************************************************************)
(* The codepoints of a well-formed byte string. *)
RECURSIVE Decode(_, _)
Decode(s, off) ==
    IF off >= Len(s) THEN << >>
    ELSE <<get_utf8_codepoint(s, off).codepoint>>
         \o Decode(s, off + get_utf8_codepoint(s, off).byte_len)

IsPrefixAt(w, s, off) ==
    off + Len(w) <= Len(s) /\ SubSeq(s, off + 1, off + Len(w)) = w

(* The byte offset at which token i starts, were the tokens contiguous     *)
(* from offset 0.                                                          *)
TokenStart(i) ==
    LET F[k \in 0..Len(tokens)] ==
            IF k = 0 THEN 0 ELSE F[k - 1] + Len(tokens[k])
    IN  F[i - 1]
TokenEnd(i) == TokenStart(i) + Len(tokens[i])

IsBoundary(p) == p = 0 \/ p \in Range(valid_pos)

DefaultWordSet == {Utf8(default_words[i]) : i \in 1..Len(default_words)}

(***************************************************************************)
(* C1.  Coverage: the tokens a call returns, concatenated in order, are    *)
(* the input text byte for byte, for every text, the texts that reach the  *)
(* MAX_TOKENS ceiling included.                                            *)
(***************************************************************************)
C1_Coverage ==
    pc = "done" => token_count = Len(tokens) /\ Flatten(tokens) = text

(***************************************************************************)
(* C2.  Non-emptiness: no token is empty, and a call on the empty text     *)
(* returns token_count = 0 and no token array.                             *)
(***************************************************************************)
C2_NonEmpty ==
    /\ \A i \in 1..Len(tokens) : Len(tokens[i]) >= 1
    /\ pc = "done" /\ text = << >> =>
           token_count = 0 /\ tokens = << >> /\ ret = "NULL"

C2_Witness ==
    /\ pc = "done" /\ ret = "tokens"
    /\ {"dict", "run", "tcc"} \subseteq Range(branch)

(***************************************************************************)
(* C3.  Cluster integrity: the start and the end of every token emitted    *)
(* by the fallback branch are 0 or an offset of the boundary list of       *)
(* tcc_pos.                                                                *)
(***************************************************************************)
C3_ClusterIntegrity ==
    \A i \in 1..Len(tokens) :
        branch[i] = "tcc" => IsBoundary(TokenStart(i)) /\ IsBoundary(TokenEnd(i))

(***************************************************************************)
(* C4.  Non-Thai run purity.                                               *)
(***************************************************************************)
AllAlpha(cps) == \A i \in 1..Len(cps) : IsAlpha(cps[i])
AllDigitSep(cps) == \A i \in 1..Len(cps) : IsDigit(cps[i]) \/ cps[i] = 46 \/ cps[i] = 44
AllSpaceTab(cps) == \A i \in 1..Len(cps) : IsSpaceTab(cps[i])
InThaiBlock(cp) == cp >= 3584 /\ cp <= 3711
HasNonThai(cps) == \E i \in 1..Len(cps) : ~InThaiBlock(cps[i])
Homogeneous(cps) == AllAlpha(cps) \/ AllDigitSep(cps) \/ AllSpaceTab(cps)

(* As claimed: every token holding a non-Thai character is all letters,    *)
(* all digits and separators, or all spaces and tabs.                      *)
C4_RunPurity ==
    \A i \in 1..Len(tokens) :
        HasNonThai(Decode(tokens[i], 0)) => Homogeneous(Decode(tokens[i], 0))

(* As amended: every token that is not a dictionary match and holds a      *)
(* non-Thai character is all letters, or a digit followed by digits and    *)
(* separators, or all spaces and tabs, or one single other codepoint.      *)
C4_RunPurityAmended ==
    \A i \in 1..Len(tokens) :
        LET cps == Decode(tokens[i], 0)
        IN  branch[i] # "dict" /\ HasNonThai(cps) =>
                \/ AllAlpha(cps)
                \/ AllDigitSep(cps) /\ IsDigit(cps[1])
                \/ AllSpaceTab(cps)
                \/ Len(cps) = 1 /\ ~IsAlpha(cps[1]) /\ ~IsDigit(cps[1])
                   /\ ~IsSpaceTab(cps[1])

C4_Witness ==
    /\ pc = "done" /\ text = Utf8(<<49, 44, 53, 46, 97, 9, 32, 45>>)
    /\ tokens = <<Utf8(<<49, 44, 53, 46>>), <<97>>, <<9, 32>>, <<45>> >>
    /\ Range(branch) = {"run"}

(***************************************************************************)
(* C7.  The README sentence with a dictionary that holds "chan", "pai"     *)
(* and "rongrian".                                                         *)
(***************************************************************************)
ThreeTokens == <<WChan, WPai, WRongRian>>

(* As claimed: any dictionary holding the three words gives three tokens. *)
C7_AnySuperset ==
    pc = "done" /\ text = ChanPaiRongRian /\ Range(ThreeTokens) \subseteq WordsOf(dict)
        => tokens = ThreeTokens

(* No word of the dictionary is a longer match than w where w starts. *)
NoLongerMatch(w, off) ==
    \A v \in WordsOf(dict) : IsPrefixAt(v, ChanPaiRongRian, off) => Len(v) <= Len(w)

(* As amended: ... provided the dictionary holds no longer word than       *)
(* "chan" that starts the sentence and no longer word than "pai" that      *)
(* starts the rest of it after "chan".                                     *)
C7_SupersetWithoutLongerMatch ==
    pc = "done" /\ text = ChanPaiRongRian /\ Range(ThreeTokens) \subseteq WordsOf(dict)
      /\ NoLongerMatch(WChan, 0) /\ NoLongerMatch(WPai, Len(WChan))
        => tokens = ThreeTokens

C7_Witness ==
    /\ pc = "done" /\ text = ChanPaiRongRian /\ tokens = ThreeTokens
    /\ WordsOf(dict) = Range(ThreeTokens) \cup {WCho, WRian}

(***************************************************************************)
(* C8.  Non-Thai run rule: where no dictionary word matches and the        *)
(* character is a letter (a digit; a space or tab), the token is the       *)
(* maximal run of letters (digits, '.' and ','; spaces and tabs) that      *)
(* starts there; any other non-Thai character is a token by itself.  With  *)
(* the three examples of the test suite.                                   *)
(***************************************************************************)
DictMatchAt(off) == \E w \in WordsOf(dict) : IsPrefixAt(w, text, off)

CpAt(off) == get_utf8_codepoint(text, off).codepoint

IsDigitSep(cp) == IsDigit(cp) \/ cp = 46 \/ cp = 44

EndsRun(i, cps, InClass(_)) ==
    /\ \A k \in 1..Len(cps) : InClass(cps[k])
    /\ TokenEnd(i) = Len(text) \/ ~InClass(CpAt(TokenEnd(i)))

RunRuleAt(i) ==
    LET cp == CpAt(TokenStart(i))
        cps == Decode(tokens[i], 0)
    IN  /\ tokens[i] = substring(text, TokenStart(i), TokenEnd(i))
        /\ IF IsAlpha(cp) THEN EndsRun(i, cps, IsAlpha)
           ELSE IF IsDigit(cp) THEN EndsRun(i, cps, IsDigitSep)
           ELSE IF IsSpaceTab(cp) THEN EndsRun(i, cps, IsSpaceTab)
           ELSE Len(cps) = 1

Hello == Utf8(<<104, 101, 108, 108, 111>>)
World == Utf8(<<119, 111, 114, 108, 100>>)
Abc == Utf8(<<65, 66, 67>>)

C8_RunRule ==
    /\ \A i \in 1..Len(tokens) :
           ~DictMatchAt(TokenStart(i)) /\ ~InThaiBlock(CpAt(TokenStart(i)))
               => RunRuleAt(i)
    /\ pc = "done" /\ (\A off \in 0..Len(text) : ~DictMatchAt(off)) =>
           /\ text = HelloWorld => tokens = <<Hello, <<32>>, World>>
           /\ text = OneTwoThree => tokens = <<OneTwoThree>>
    /\ pc = "done" /\ text = PaiAbc123 /\ WPai \in WordsOf(dict)
         /\ (\A off \in 0..Len(text) : \A w \in WordsOf(dict) :
                 IsPrefixAt(w, text, off) => off = 0 /\ w = WPai)
         => tokens = <<WPai, <<32>>, Abc, <<32>>, OneTwoThree>>

C8_Witness ==
    /\ pc = "done" /\ text = PaiAbc123
    /\ tokens = <<WPai, <<32>>, Abc, <<32>>, OneTwoThree>>
    /\ branch = <<"dict", "run", "run", "run", "run">>

(***************************************************************************)
(* C9.  The README and the wrapper's docstring: with the built-in default  *)
(* dictionary (dict_path = NULL) the sentence gives the three tokens.      *)
(***************************************************************************)
C9_DefaultDictThreeTokens ==
    pc = "done" /\ dict_path = NullPath /\ dict # NullDict
      /\ text = ChanPaiRongRian
        => tokens = ThreeTokens

(***************************************************************************)
(* C10.  Load fallback: a path that cannot be opened still gives a handle, *)
(* its words are the built-in default words, and segmentation with it      *)
(* gives the tokens segmentation with dict_path = NULL gives.              *)
(***************************************************************************)
DefaultDict == newmm_load_dict(NullPath)

C10_LoadFallback ==
    dict_path \notin {NoPath, NullPath} /\ ~CanOpen(dict_path) =>
        /\ dict # NullDict /\ dict.nodes # << >>
        /\ WordsOf(dict) = DefaultWordSet
        /\ pc = "done" =>
               LET r == segment_text(text, DefaultDict)
               IN  /\ tokens = r.loc.tokens
                   /\ token_count = r.loc.token_count
                   /\ ret = IF r.entered THEN "tokens" ELSE "NULL"

C10_Witness ==
    /\ pc = "done" /\ dict_path = MissingPath
    /\ "dict" \in Range(branch) /\ "tcc" \in Range(branch)

(***************************************************************************)
(* C5.  Trie idempotence: a trie_add of a word already given to trie_add   *)
(* leaves num_words as it is, and the result of trie_prefixes for every    *)
(* query text.                                                             *)
(***************************************************************************)
QueryTexts == Texts \cup AddWords

C5_Idempotent ==
    [][adds' = adds + 1 /\ last_add'.again =>
           /\ dict'.num_words = dict.num_words
           /\ \A q \in QueryTexts :
                  trie_prefixes(dict', q, 0) = trie_prefixes(dict, q, 0)]_vars

C5_Witness ==
    /\ last_add.again /\ last_add.word = Utf8(<<3585, 3634>>)
    /\ dict.num_words = 2

(***************************************************************************)
(* C6.  Determinism and handle reuse: a call returns what an earlier call  *)
(* on the same text returned, whatever calls were made in between, if      *)
(* the dictionary held the same words.                                     *)
(***************************************************************************)
C6_Deterministic ==
    pc = "done" /\ memo.has /\ memo.text = text /\ memo.words = WordsOf(dict) =>
        /\ tokens = memo.tokens
        /\ token_count = memo.token_count
        /\ ret = memo.ret

C6_Witness ==
    /\ pc = "done" /\ memo.has /\ memo.text = text /\ memo.words = WordsOf(dict)
    /\ memo.path # dict_path
    /\ Len(tokens) >= 2 /\ "dict" \in Range(branch)

(***************************************************************************)
(* C11.  Convenience form: newmm_segment(text, source) returns what        *)
(* newmm_segment_with_dict(text, newmm_load_dict(source)) returns, and at  *)
(* its return the handle it loaded, if it loaded one, has been released    *)
(* exactly once, after its last use.                                       *)
(***************************************************************************)
Count(events, e) == Cardinality({i \in 1..Len(events) : events[i] = e})

C11_Convenience ==
    pc = "done" /\ once.active =>
        LET d == IF once.created THEN newmm_load_dict(once.path) ELSE NullDict
            r == newmm_segment_with_dict(text, d)
        IN  /\ tokens = r.loc.tokens
            /\ token_count = r.loc.token_count
            /\ ret = r.ret
            /\ Count(once.events, "newmm_free_dict")
                   = Count(once.events, "newmm_load_dict")
            /\ Count(once.events, "newmm_load_dict") <= 1
            /\ once.events # << >> => Last(once.events) = "newmm_free_dict"

C11_Witness ==
    /\ pc = "done" /\ once.active /\ once.created /\ once.path = WordsPath({3})
    /\ text = ChanPaiRongRian /\ tokens = ThreeTokens
    /\ once.events = <<"newmm_load_dict", "newmm_segment_with_dict",
                       "newmm_free_dict">>

(***************************************************************************)
(* C12.  Shared read-only dictionary: no step of a segmentation call       *)
(* changes the trie, and whatever the interleaving of two calls that share *)
(* one handle, each returns what it returns when it runs alone.            *)
(***************************************************************************)
Alone(t) == newmm_segment_with_dict(t, dict)

C12_SharedReadOnly ==
    /\ [](/\ pc = "done" =>
                /\ tokens = Alone(text).loc.tokens
                /\ token_count = Alone(text).loc.token_count
                /\ ret = Alone(text).ret
          /\ other.pc = "done" =>
                /\ other.loc.tokens = Alone(other.text).loc.tokens
                /\ other.loc.token_count = Alone(other.text).loc.token_count
                /\ other.ret = Alone(other.text).ret)
    /\ [][pc # "idle" \/ other.pc # "idle" => dict' = dict]_vars

C12_Witness ==
    /\ pc = "loop" /\ pos > 0 /\ pos < Len(text)
    /\ other.pc = "loop" /\ other.loc.pos > 0 /\ other.loc.pos < Len(other.text)
    /\ text # other.text
    /\ "dict" \in Range(branch) /\ "dict" \in Range(other.loc.branch)

(***************************************************************************)
(* C13.  Prefix query: for a trie built by trie_add calls and a            *)
(* well-formed text, trie_prefixes returns, in strictly increasing order,  *)
(* exactly the byte lengths L for which the first L bytes of the text are  *)
(* a word given to trie_add, trimmed; no length exceeds the length of the  *)
(* text, and the text up to a returned length has child edges all along,   *)
(* that is, spells the start of an inserted word.                          *)
(***************************************************************************)
Trimmed(ws) == {TrimRight(TrimLeft(w)) : w \in ws} \ {<< >>}

StrictlyIncreasing(f) == \A i \in 1..(Len(f) - 1) : f[i] < f[i + 1]

C13_PrefixQuery ==
    dict # NullDict =>
        \E words \in {Trimmed(added)} :
            \A q \in QueryTexts :
                \E lengths \in {trie_prefixes(dict, q, 0)} :
                    /\ StrictlyIncreasing(lengths)
                    /\ Range(lengths)
                         = {L \in 1..Len(q) : SubSeq(q, 1, L) \in words}
                    /\ \A i \in 1..Len(lengths) :
                           /\ lengths[i] <= Len(q)
                           /\ \A e \in 1..lengths[i] :
                                  \E w \in words : IsPrefixAt(SubSeq(q, 1, e), w, 0)

C13_Witness ==
    /\ dict # NullDict
    /\ Utf8(<<32, 3585, 10>>) \in added /\ Utf8(<<3585, 3634>>) \in added
    /\ trie_prefixes(dict, Utf8(<<3585, 3634, 3648>>), 0) = <<3, 6>>
    /\ trie_prefixes(dict, Utf8(<<3634, 3585>>), 0) = << >>

(***************************************************************************)
(* C14.  Boundary list: for a non-empty well-formed text tcc_pos returns a *)
(* non-empty, strictly increasing list of byte offsets, each in 1..len,    *)
(* whose last element is the byte length of the text; for the empty text   *)
(* it returns no boundary.                                                 *)
(***************************************************************************)
C14_BoundaryList ==
    pc = "done" =>
        IF text = << >> THEN valid_pos = << >>
        ELSE /\ valid_pos # << >>
             /\ StrictlyIncreasing(valid_pos)
             /\ \A i \in 1..Len(valid_pos) :
                    valid_pos[i] >= 1 /\ valid_pos[i] <= Len(text)
             /\ Last(valid_pos) = Len(text)

C14_Witness ==
    /\ pc = "done" /\ tokens = << >>
    /\ text = Utf8(<<3648, 3585, 3585, 3656, 3634>>)
    /\ valid_pos = <<12, 15>>

(***************************************************************************)
(* C15.  Termination: every iteration of the loop of segment_text,         *)
(* whatever its branch, moves pos forward by a byte at least, and a call   *)
(* that has entered the loop returns.                                      *)
(***************************************************************************)
C15_Termination ==
    /\ [][pc = "loop" /\ tokens' # tokens => pos' >= pos + 1]_vars
    /\ (pc = "loop") ~> (pc = "done")

C15_Witness ==
    /\ pc = "done" /\ ret = "tokens" /\ pos = Len(text)
    /\ dict_path = NullPath /\ text = Utf8(<<3585, 3634, 3648>>)
    /\ branch = <<"tcc", "tcc">>

(***************************************************************************)
(* C16.  Token ceiling: a call that leaves the loop at the MAX_TOKENS      *)
(* ceiling before the end of the text tells its caller so; it does not     *)
(* return as a complete segmentation does, with a token array and its      *)
(* count.                                                                  *)
(***************************************************************************)
C16_CeilingReported ==
    pc = "done" /\ broke /\ pos < Len(text) => ret # "tokens"

(***************************************************************************)
(* C17.  Allocation failure in trie_add: after a trie_add that gave up on  *)
(* a failed allocation, the children and child_chars pointers of every     *)
(* node refer to live arrays of num_children entries at least, num_words   *)
(* is what it was, the words inserted before are still found, and          *)
(* trie_free frees every node once (it frees no block a second time).      *)
(***************************************************************************)
C17_FailedAddKeepsTrie ==
    mem.failed =>
        /\ mem.dangling = {}
        /\ \A n \in 1..Len(dict.nodes) :
               /\ dict.nodes[n].capacity >= dict.nodes[n].num_children
               /\ Len(dict.nodes[n].children) = dict.nodes[n].num_children
               /\ Len(dict.nodes[n].child_chars) = dict.nodes[n].num_children
        /\ dict.num_words = mem.num_words
        /\ mem.words \subseteq WordsOf(dict)

(***************************************************************************)
(* C18.  Loop invariant: at the start of every iteration of the loop of    *)
(* segment_text pos is 0 or an offset of the boundary list of tcc_pos.     *)
(***************************************************************************)
C18_PosAtBoundary ==
    pc = "loop" /\ LoopRuns(text, Locals) => IsBoundary(pos)

(***************************************************************************)
(* C19.  Lookahead: where dictionary words match at pos, with best the     *)
(* longest of them, the token is best, unless best ends before the end of  *)
(* the text, at a character of the Thai block where no dictionary word     *)
(* starts; then the token is the shortest match, shorter than best, at     *)
(* whose end a dictionary word starts, and best if there is no such match. *)
(***************************************************************************)
(* The lengths of the dictionary words that start at off. *)
MatchesAt(off) ==
    {L \in 1..(Len(text) - off) : SubSeq(text, off + 1, off + L) \in WordsOf(dict)}

Max(S) == CHOOSE x \in S : \A y \in S : y <= x
Min(S) == CHOOSE x \in S : \A y \in S : x <= y

Expected(off) ==
    LET best == Max(MatchesAt(off))
        stranded == /\ off + best < Len(text)
                    /\ MatchesAt(off + best) = {}
                    /\ InThaiBlock(CpAt(off + best))
        kept == {L \in MatchesAt(off) : L < best /\ MatchesAt(off + L) # {}}
    IN  IF stranded /\ kept # {} THEN Min(kept) ELSE best

C19_Lookahead ==
    dict # NullDict =>
        \A i \in 1..Len(tokens) :
            MatchesAt(TokenStart(i)) # {} =>
                Len(tokens[i]) = Expected(TokenStart(i))

C19_Witness ==
    /\ pc = "done" /\ dict_path = WordsPath({3}) /\ text = ChanPaiRongRian
    /\ tokens = ThreeTokens
    /\ Max(MatchesAt(Len(WChan))) = Len(WPaiRong)

(***************************************************************************)
(* C20.  TCC fallback: where no dictionary word matches at pos and the     *)
(* character at pos is in the Thai block, the token runs from pos to the   *)
(* smallest boundary of tcc_pos that is greater than pos, or to the end of *)
(* the text if there is none; with the default dictionary the sentence of  *)
(* the README gives the six tokens that test 8 prints.                     *)
(***************************************************************************)
SixTokens ==
    <<Utf8(<<3593, 3633>>), Utf8(<<3609>>), WPai, Utf8(<<3650, 3619, 3591>>),
      Utf8(<<3648, 3619, 3637>>), Utf8(<<3618, 3609>>)>>

InRange(c, lo, hi) == c >= lo /\ c <= hi
LeadVowel(c) == InRange(c, 3648, 3652)
Consonant(c) == InRange(c, 3585, 3630)
FollowVowel(c) == InRange(c, 3632, 3635)
Mark(c) == InRange(c, 3656, 3662) \/ InRange(c, 3636, 3641)

(* The length of the longest run of marks of cps from index k on. *)
MarkRun(cps, k, follow) ==
    LET In(j) == Mark(cps[j]) \/ (follow /\ FollowVowel(cps[j]))
    IN  CHOOSE n \in 0..(Len(cps) - k + 1) :
            /\ \A j \in k..(k + n - 1) : In(j)
            /\ k + n > Len(cps) \/ ~In(k + n)

(* The number of codepoints of the cluster that starts at index k. *)
ClusterCount(cps, k) ==
    LET Cons(j) == j <= Len(cps) /\ Consonant(cps[j])
    IN  IF LeadVowel(cps[k]) THEN
            IF ~Cons(k + 1) THEN 1
            ELSE IF Cons(k + 2) THEN 3 + MarkRun(cps, k + 3, FALSE)
            ELSE 2 + MarkRun(cps, k + 2, FALSE)
        ELSE IF Consonant(cps[k]) THEN
            IF Cons(k + 1) THEN 2 + MarkRun(cps, k + 2, TRUE)
            ELSE 1 + MarkRun(cps, k + 1, TRUE)
        ELSE 1

C21_ClusterRule ==
    pc = "done" =>
        \E cps \in {Decode(text, 0)} :
            /\ \A k \in 1..Len(cps) :
                   get_tcc_length(text, Len(Utf8(SubSeq(cps, 1, k - 1))))
                   = Len(Utf8(SubSeq(cps, k, k + ClusterCount(cps, k) - 1)))
            /\ \A i \in 1..Len(valid_pos) :
                   \E start \in {IF i = 1 THEN 0 ELSE valid_pos[i - 1]} :
                       \E k \in 1..Len(cps) :
                           /\ Len(Utf8(SubSeq(cps, 1, k - 1))) = start
                           /\ valid_pos[i] - start
                              = Len(Utf8(SubSeq(cps, k, k + ClusterCount(cps, k) - 1)))

(* sara e, ko kai, sara a: the follow vowel stays out of the cluster of    *)
(* the leading vowel.                                                      *)
C21_Witness ==
    /\ pc = "done" /\ tokens = << >>
    /\ text = Utf8(<<3648, 3585, 3632>>)
    /\ valid_pos = <<6, 9>>
    /\ get_tcc_length(text, 0) = 6 /\ get_tcc_length(text, 3) = 6

(***************************************************************************)
(* C22.  Insert trimming: trie_add strips leading and trailing space, tab, *)
(* CR and LF from the word and keeps the whitespace inside it; it does     *)
(* nothing when the word is empty or empty after trimming; otherwise it    *)
(* marks exactly the node the trimmed word's codepoints lead to, and adds  *)
(* one to num_words only if that node was not marked before.               *)
(***************************************************************************)
IsBlank(b) == b \in {32, 9, 13, 10}

(* The word from its first to its last byte that is not whitespace. *)
TrimSpec(w) ==
    LET Solid == {i \in 1..Len(w) : ~IsBlank(w[i])}
    IN  IF Solid = {} THEN << >> ELSE SubSeq(w, Min(Solid), Max(Solid))

C22_InsertTrimming ==
    [][adds' = adds + 1 =>
           \E t \in {TrimSpec(last_add'.word)} :
               IF t = << >> THEN dict' = dict
               ELSE \E before \in {WordsOf(dict)} :
                        /\ WordsOf(dict') = before \cup {t}
                        /\ dict'.num_words
                           = dict.num_words + (IF t \in before THEN 0 ELSE 1)]_vars

(* " ", ko kai, "\n" added after ko kai: the same node, counted once. *)
C22_Witness ==
    /\ last_add.word = Utf8(<<32, 3585, 10>>) /\ ~last_add.again
    /\ Utf8(<<3585>>) \in added /\ Utf8(<<97, 32, 97>>) \in added
    /\ WordsOf(dict) = {Utf8(<<3585>>), Utf8(<<97, 32, 97>>)}
    /\ dict.num_words = 2

(***************************************************************************)
(* C23.  Trie structural invariant: after any sequence of trie_add calls   *)
(* in which no allocation fails, no node has two children with the same    *)
(* codepoint, num_children <= capacity in every node, num_words is the     *)
(* number of marked nodes, and the codepoint paths from the root to the    *)
(* marked nodes are exactly the distinct non-empty trimmed words inserted. *)
(***************************************************************************)
C23_TrieInvariant ==
    dict # NullDict =>
        /\ \A n \in 1..Len(dict.nodes) :
               \E node \in {dict.nodes[n]} :
                   /\ \A i, j \in 1..node.num_children :
                          i # j => node.child_chars[i] # node.child_chars[j]
                   /\ node.num_children <= node.capacity
                   /\ Len(node.children) = node.num_children
                   /\ Len(node.child_chars) = node.num_children
        /\ dict.num_words
           = Cardinality({n \in 1..Len(dict.nodes) : dict.nodes[n].is_end})
        /\ WordsOf(dict) = {TrimSpec(w) : w \in added} \ {<< >>}

(* Nine children of the root, in an array grown from 8 to 16 entries, and  *)
(* a word given twice.                                                     *)
C23_Witness ==
    /\ dict # NullDict /\ adds = 3
    /\ dict.nodes[1].num_children = 9 /\ dict.nodes[1].capacity = 16
    /\ dict.num_words = 10
    /\ Utf8(<<3585, 3634>>) \in added /\ Utf8(<<32, 3585, 10>>) \in added
    /\ last_add.word = Utf8(<<3585>>)

(***************************************************************************)
(* C24.  Bulk load count: trie_load_dict inserts each line of the source,  *)
(* its trailing CR/LF stripped, exactly once as one word, skips blank      *)
(* lines and returns the number of non-empty lines of the source, whatever *)
(* the length of a line; it returns -1 and leaves the trie as it was when  *)
(* the source cannot be opened.                                            *)
(***************************************************************************)
(* The lines of a file, by the offset of what ends each: a newline, or the *)
(* end of the file after an unterminated last line.                        *)
LineEnds(content) ==
    {i \in 1..Len(content) : content[i] = 10}
    \cup (IF content # << >> /\ Last(content) # 10 THEN {Len(content) + 1} ELSE {})

LineAt(content, e) ==
    LET start == Max({0} \cup {i \in 1..(e - 1) : content[i] = 10}) + 1
        raw == SubSeq(content, start, e - 1)
    IN  IF raw # << >> /\ Last(raw) = 13 THEN SubSeq(raw, 1, Len(raw) - 1) ELSE raw

C24_BulkLoadCount ==
    load.called =>
        IF load.path # NullPath /\ CanOpen(load.path)
        THEN \E content \in {FileContent(load.path)} :
                 \E ends \in {{e \in LineEnds(content) : LineAt(content, e) # << >>}} :
                     /\ load.ret = Cardinality(ends)
                     /\ load.after
                        = load.words
                          \cup ({TrimSpec(LineAt(content, e)) : e \in ends} \ {<< >>})
                     /\ load.num_words = Cardinality(load.after)
        ELSE /\ load.ret = -1
             /\ load.after = load.words
             /\ load.num_words = Cardinality(load.words)

(***************************************************************************)
(* C25.  Wrapper cache reuse: over any sequence of segment(text,           *)
(* dict_path) and clear_cache calls, a segment call whose dict_path equals *)
(* the key of the cached dictionary (both NULL, or equal strings) uses the *)
(* cached handle and neither reloads nor frees it; the cached dictionary   *)
(* is released or replaced only by clear_cache or by a segment call whose  *)
(* dict_path differs from the cached key.                                  *)
(***************************************************************************)
SameKey(path) ==
    /\ dict_cache.dict # 0
    /\ \/ path = NullPath /\ dict_cache.dict_path = NullPath
       \/ /\ path # NullPath /\ dict_cache.dict_path # NullPath
          /\ path.file = dict_cache.dict_path.file

C25_CacheReuse ==
    [][/\ py'.op = "segment" /\ py'.turn # py.turn /\ SameKey(py'.arg)
          => /\ py'.used = dict_cache.dict
             /\ py'.heap = py.heap
             /\ dict_cache' = dict_cache
       /\ /\ py'.op \in {"segment", "clear_cache"} /\ dict_cache.dict # 0
          /\ \/ dict_cache'.dict # dict_cache.dict
             \/ py'.heap[dict_cache.dict].frees # py.heap[dict_cache.dict].frees
          => \/ py'.op = "clear_cache"
             \/ py'.op = "segment" /\ ~SameKey(py'.arg)]_vars

(* thai.txt loaded by one call and used again by the next; one handle was  *)
(* freed before, when the key changed.                                     *)
C25_Witness ==
    /\ py.op = "segment" /\ py.arg = ThaiPath /\ py.ret = "list"
    /\ dict_cache = [dict |-> 2, dict_path |-> ThaiPath]
    /\ py.used = 2 /\ py.turn = 1
    /\ Len(py.heap) = 2 /\ py.heap[1].frees = 1 /\ py.heap[2].frees = 0

(***************************************************************************)
(* C26.  Wrapper cache safety: in every state reached by segment,          *)
(* clear_cache and module_free calls, loads and path copies that fail      *)
(* among them, a non-NULL dict_cache.dict_path comes with a non-NULL       *)
(* dict_cache.dict, the handle given to newmm_segment_with_dict has not    *)
(* been freed, and no loaded handle is freed twice.                        *)
(***************************************************************************)
C26_CacheSafety ==
    /\ dict_cache.dict_path # NullPath => dict_cache.dict # 0
    /\ dict_cache.dict # 0 =>
           /\ dict_cache.dict \in 1..Len(py.heap)
           /\ py.heap[dict_cache.dict].frees = 0
    /\ py.used # 0 => py.used_frees = 0
    /\ \A h \in 1..Len(py.heap) : py.heap[h].frees <= 1

(* A call whose path copy failed after two dictionaries had been loaded    *)
(* and the first released: the new handle is freed, the cache is empty.    *)
C26_Witness ==
    /\ py.op = "segment" /\ py.arg = MixedPath /\ py.ret = "RuntimeError"
    /\ py.used = 0 /\ dict_cache = NoCache
    /\ Len(py.heap) = 2 /\ py.heap[1].frees = 1 /\ py.heap[2].frees = 1
    /\ WordsOf(py.heap[1].trie) = DefaultWordSet

(***************************************************************************)
(* C27.  Decoder bounds: called at any position that holds a non-NUL byte  *)
(* of a NUL-terminated buffer, get_utf8_codepoint returns a byte length in *)
(* 1..4 fixed by the high bits of the leading byte (1 for an invalid       *)
(* leading byte) and reads no byte that lies after the NUL of the buffer,  *)
(* also when the sequence is cut short by the end of the text.             *)
(***************************************************************************)
LengthOfLead(c) ==
    IF c < 128 THEN 1
    ELSE IF c \in 192..223 THEN 2
    ELSE IF c \in 224..239 THEN 3
    ELSE IF c \in 240..247 THEN 4
    ELSE 1

C27_DecoderBounds ==
    decoded.called =>
        /\ ~decoded.fault
        /\ decoded.byte_len \in 1..4
        /\ decoded.byte_len = LengthOfLead(decoded.text[decoded.off + 1])
        /\ \A r \in decoded.reads : r <= Len(decoded.text)

(***************************************************************************)
(* C28.  Iteration bound: for every text and dictionary the loop of        *)
(* segment_text runs at most as many times, and emits at most as many      *)
(* tokens, as the text has TCC clusters: token_count is at most the number *)
(* of boundaries tcc_pos returned.                                         *)
(***************************************************************************)
C28_IterationBound ==
    pc = "done" /\ ret = "tokens" =>
        /\ token_count <= Len(valid_pos)
        /\ Len(branch) <= Len(valid_pos)

(***************************************************************************)
(* C29.  Allocation failure during segmentation: if the allocation of the  *)
(* TCC boundary list, its growth, or the allocation of the token array     *)
(* fails, segment_text returns zero tokens, every buffer it owns has been  *)
(* released exactly once (none freed twice, none leaked), and the          *)
(* dictionary is as it was and can still be used.                          *)
(***************************************************************************)
C29_AllocationFailure ==
    bufs.called /\ bufs.fail # "none" =>
        /\ bufs.outcome = "returned"
        /\ ret = "NULL" /\ token_count = 0 /\ tokens = << >>
        /\ ~bufs.tokens_live
        /\ bufs.frees = (IF bufs.allocated THEN 1 ELSE 0)
        /\ dict # NullDict /\ WordsOf(dict) = bufs.words

=============================================================================
